---- MODULE Spec2Model ----
(***************************************************************************)
(* Model of app.py, the PhonePe Pulse dashboard: name reconciliation       *)
(* (to_st_nm / stnm_to_db), geometry enrichment (build_feature_collection),*)
(* selection resolution (get_selected_state_from_event), the KPI queries,  *)
(* the Home render pass (render_home) with its cached lookups and failing  *)
(* queries, the sorted top-N queries and the period of render_cs2.         *)
(*                                                                         *)
(* Representation of Python values.  Every Python value is a tagged        *)
(* record:                                                                 *)
(*   None            [t |-> "none"]                                        *)
(*   str             [t |-> "str",  s |-> tokens]                          *)
(*   int             [t |-> "int",  n |-> n]                               *)
(*   list            [t |-> "list", l |-> <<v1, ..., vn>>]                 *)
(*   dict            [t |-> "dict", items |-> << <<k1, v1>>, ... >>]       *)
(*                   (insertion order, keys are TLA+ strings)              *)
(*   attribute dict  [t |-> "attrdict", items |-> ...]  a dict whose keys  *)
(*                   are also attributes (what st.pydeck_chart returns)    *)
(*   plain object    [t |-> "obj", items |-> ...]  attributes only         *)
(* The text of a str is a sequence of tokens: a token is one whitespace    *)
(* character (" " or "\t") or a maximal run of non-whitespace characters,  *)
(* so "Nct Of Delhi" is <<"Nct", " ", "Of", " ", "Delhi">> and "" is <<>>. *)
(***************************************************************************)
EXTENDS Integers, Sequences, FiniteSets, TLC

VARIABLES
    nm_arg, nm_mid, nm_out,     \* name round trip: argument, to_st_nm result, stnm_to_db result
    INDIA_GEOJSON,              \* the cached boundary geometry: the list under "features"
    df_plot,                    \* the metric rows handed to build_feature_collection
    fc,                         \* the "features" of the collection it returned
    event,                      \* the selection payload of the map widget
    clicked,                    \* what get_selected_state_from_event returned for it
    ev_case,                    \* how the payload in event was put together
    aggregated_transaction,     \* store table: rows of state, year, quarter, amount, count
    map_user,                   \* store table: rows of state, year, quarter, users, app opens
    geojson_remote,             \* the "features" of the document INDIA_GEOJSON_URL serves
    load_geojson_cache,         \* st.cache_data of load_geojson()
    years_quarters_cache,       \* st.cache_data of years_quarters()
    quarters_for_year_cache,    \* st.cache_data of quarters_for_year(y), by argument
    home_clicked_state,         \* st.session_state["home_clicked_state"]
    map_key,                    \* key of the pydeck chart the last pass rendered
    home,                       \* widgets and panels of the last Home render pass
    panels,                     \* the elements the last pass emitted, in order
    raised,                     \* whether an exception ended the last pass
    issued,                     \* the cached lookups that went out during the last pass
    loaded,                     \* the row the ETL added to the store during the last pass
    top_map,                    \* store table: rows of state, year, quarter, entity_type,
                                \*   entity_name, count, amount
    top_user,                   \* store table: rows of state, year, quarter, entity_type,
                                \*   entity_name, registered_users
    top_geo_df,                 \* the frame top_geo returned
    pz,                         \* the frame of "Top Pincodes by Registered Users" (render_cs5)
    aggregated_user,            \* store table: rows of state, year, quarter, brand, count
    cs2                         \* what the last call of render_cs2 was given and rendered

nmvars == <<nm_arg, nm_mid, nm_out>>
fcvars == <<df_plot, fc>>
evvars == <<event, clicked, ev_case>>
storevars == <<aggregated_transaction, map_user, geojson_remote>>
cachevars == <<years_quarters_cache, quarters_for_year_cache, load_geojson_cache>>
homevars == <<home_clicked_state, map_key, home, panels, raised, issued, loaded>>
csvars == <<top_map, top_user, top_geo_df, pz, aggregated_user, cs2>>
vars == <<nm_arg, nm_mid, nm_out, INDIA_GEOJSON, df_plot, fc, event, clicked, ev_case,
          aggregated_transaction, map_user, years_quarters_cache, quarters_for_year_cache,
          home_clicked_state, map_key, home, top_map, top_user, top_geo_df, pz,
          aggregated_user, cs2,
          geojson_remote, load_geojson_cache, panels, raised, issued, loaded>>

----------------------------------------------------------------------------
(* Python values *)

PyNone == [t |-> "none"]
PyStr(s) == [t |-> "str", s |-> s]
PyInt(n) == [t |-> "int", n |-> n]
PyList(l) == [t |-> "list", l |-> l]
PyDict(items) == [t |-> "dict", items |-> items]
PyAttrDict(items) == [t |-> "attrdict", items |-> items]
PyObj(items) == [t |-> "obj", items |-> items]

\* a value not yet computed (no Python counterpart)
Unset == [t |-> "unset"]

\* the variables of a part of the program that a specification leaves idle
NamesIdle ==
    /\ nm_arg = Unset
    /\ nm_mid = Unset
    /\ nm_out = Unset

FcIdle ==
    /\ df_plot = <<>>
    /\ fc = Unset

EventIdle ==
    /\ event = Unset
    /\ clicked = Unset
    /\ ev_case = Unset

HomeIdle ==
    /\ aggregated_transaction = {}
    /\ map_user = {}
    /\ years_quarters_cache = Unset
    /\ quarters_for_year_cache = <<>>
    /\ home_clicked_state = Unset
    /\ map_key = Unset
    /\ home = Unset
    /\ geojson_remote = <<>>
    /\ load_geojson_cache = Unset
    /\ panels = <<>>
    /\ raised = FALSE
    /\ issued = {}
    /\ loaded = [at |-> "none"]

CsIdle ==
    /\ top_map = {}
    /\ top_user = {}
    /\ top_geo_df = Unset
    /\ pz = Unset
    /\ aggregated_user = {}
    /\ cs2 = Unset

isinstance_str(v) == v.t = "str"
isinstance_list(v) == v.t = "list"
isinstance_dict(v) == v.t \in {"dict", "attrdict"}

\* str.strip(): drop the leading and the trailing whitespace.  The characters
\* str.isspace() holds for: space, tab, line feed, carriage return, form feed,
\* then U+000B, U+001C..U+001F, U+0085, U+00A0 and U+1680, each written as
\* the character itself (U+2000..U+200A, U+2028, U+2029, U+202F, U+205F and
\* U+3000 cannot be written in a string of this module)
IsSpace(c) ==
    c \in {" ", "\t", "\n", "\r", "\f", "", "", "", "", "", "", " ", " "}

RECURSIVE LStrip(_)
LStrip(s) == IF s # <<>> /\ IsSpace(Head(s)) THEN LStrip(Tail(s)) ELSE s

RECURSIVE RStrip(_)
RStrip(s) ==
    IF s # <<>> /\ IsSpace(s[Len(s)]) THEN RStrip(SubSeq(s, 1, Len(s) - 1)) ELSE s

strip(s) == RStrip(LStrip(s))

\* key lookup in a sequence of <<key, value>> pairs; a later pair with the
\* same key has replaced an earlier one, as in a dict display or comprehension
HasKey(items, k) == \E i \in 1..Len(items) : items[i][1] = k

ItemGet(items, k, default) ==
    IF HasKey(items, k)
    THEN items[CHOOSE i \in 1..Len(items) :
                 /\ items[i][1] = k
                 /\ \A j \in (i + 1)..Len(items) : items[j][1] # k][2]
    ELSE default

----------------------------------------------------------------------------
(* Name normalization (DB <-> GeoJSON ST_NM) *)

NAME_TO_ST_NM == <<
    << <<"Andaman", " ", "And", " ", "Nicobar">>,
       <<"Andaman", " ", "&", " ", "Nicobar", " ", "Islands">> >>,
    << <<"Dadra", " ", "And", " ", "Nagar", " ", "Haveli", " ", "And", " ", "Daman", " ", "Diu">>,
       <<"Dadra", " ", "and", " ", "Nagar", " ", "Haveli", " ", "and", " ", "Daman", " ", "and", " ", "Diu">> >>,
    << <<"Nct", " ", "Of", " ", "Delhi">>, <<"Delhi">> >>,
    << <<"Jammu", " ", "And", " ", "Kashmir">>, <<"Jammu", " ", "&", " ", "Kashmir">> >>,
    << <<"Pondicherry">>, <<"Puducherry">> >>,
    << <<"Orissa">>, <<"Odisha">> >>
>>

\* to_st_nm with the untrimmed input as the default of the lookup
to_st_nm_default_untrimmed(s) ==
    IF ~isinstance_str(s) THEN s
    ELSE PyStr(ItemGet(NAME_TO_ST_NM, strip(s.s), s.s))

to_st_nm(s) ==
    IF ~isinstance_str(s) THEN s
    ELSE PyStr(ItemGet(NAME_TO_ST_NM, strip(s.s), strip(s.s)))

ST_NM_TO_NAME ==
    [i \in 1..Len(NAME_TO_ST_NM) |-> <<NAME_TO_ST_NM[i][2], NAME_TO_ST_NM[i][1]>>]

stnm_to_db_identity(s) ==
    IF ~isinstance_str(s) THEN s
    ELSE PyStr(strip(s.s))

stnm_to_db(s) ==
    IF ~isinstance_str(s) THEN s
    ELSE PyStr(ItemGet(ST_NM_TO_NAME, strip(s.s), strip(s.s)))

----------------------------------------------------------------------------
(* Numbers.  A Python float is an IEEE 754 double, kept as the number it  *)
(* is: the sign, the whole part n of the magnitude, and the binary digits  *)
(* frac of the fractional part, most significant first and without         *)
(* trailing zeros.  An operation gives its exact result rounded to 53      *)
(* significant digits, ties to even.  Whole parts stay below 2^31 and      *)
(* results above the subnormal range.                                      *)

Abs(n) == IF n < 0 THEN -n ELSE n

RECURSIVE BitLen(_)
BitLen(n) == IF n = 0 THEN 0 ELSE 1 + BitLen(n \div 2)

RECURSIVE Trim(_)
Trim(bits) ==
    IF bits # <<>> /\ bits[Len(bits)] = 0 THEN Trim(SubSeq(bits, 1, Len(bits) - 1)) ELSE bits

Float(neg, m) == [t |-> "float", neg |-> neg, n |-> m.n, frac |-> Trim(m.frac)]
Mag(a) == [n |-> a.n, frac |-> a.frac]
ZeroMag == [n |-> 0, frac |-> <<>>]

RECURSIVE LeadingZeros(_)
LeadingZeros(bits) ==
    IF bits = <<>> \/ Head(bits) = 1 THEN 0 ELSE 1 + LeadingZeros(Tail(bits))

\* one unit more in the last place of bits: the last 0 becomes 1 and the
\* digits after it 0, or the whole part grows by one
Inc(n, bits) ==
    LET zeros == {i \in 1..Len(bits) : bits[i] = 0}
    IN  IF zeros = {} THEN [n |-> n + 1, frac |-> <<>>]
        ELSE [n |-> n,
              frac |-> Append(SubSeq(bits, 1, (CHOOSE i \in zeros : \A j \in zeros : j <= i) - 1), 1)]

\* round-half-even of the magnitude n.bits to 53 significant digits; sticky
\* says that the exact value has nonzero digits after the last of bits
RoundToDouble(n, bits, sticky) ==
    LET keep == IF n > 0 THEN 53 - BitLen(n) ELSE LeadingZeros(bits) + 53
    IN  IF Len(bits) <= keep THEN [n |-> n, frac |-> bits]
        ELSE LET kept == SubSeq(bits, 1, keep)
                 half == bits[keep + 1] = 1
                 more == sticky \/ \E i \in (keep + 2)..Len(bits) : bits[i] = 1
                 odd  == kept[keep] = 1
             IN  IF half /\ (more \/ odd) THEN Inc(n, kept) ELSE [n |-> n, frac |-> kept]

\* long division of r by b, r < b: the digits of r/b after those of acc, up
\* to the need-th significant one, and the remainder left
RECURSIVE DivBits(_, _, _, _, _)
DivBits(r, b, need, started, acc) ==
    IF r = 0 \/ need = 0 THEN [bits |-> acc, rem |-> r]
    ELSE IF 2 * r >= b THEN DivBits(2 * r - b, b, need - 1, TRUE, Append(acc, 1))
    ELSE DivBits(2 * r, b, IF started THEN need - 1 ELSE need, started, Append(acc, 0))

RoundedQuotient(q, d) == RoundToDouble(q, d.bits, d.rem # 0)

\* the double nearest to a / b, for naturals a and b > 0
Quotient(a, b) ==
    RoundedQuotient(a \div b, DivBits(a % b, b, 54 - BitLen(a \div b), a \div b > 0, <<>>))

\* the float nearest to n / d, for an integer n and d > 0
PyFloat(n, d) == Float(n < 0, Quotient(Abs(n), d))

float(v) == IF v.t = "int" THEN PyFloat(v.n, 1) ELSE v

Pad(bits, k) == bits \o [i \in 1..(k - Len(bits)) |-> 0]
Longer(x, y) == IF Len(x) < Len(y) THEN Len(y) ELSE Len(x)

\* n.x + sign * m.y for digit sequences x and y of one length, from the last
\* digit back to the first; acc holds the digits found, carry what they gave
\* to the next (a borrow when it is negative).  carry is -1, 0 or 1 at every
\* step: the test of it has TLC compute it step by step.
RECURSIVE SumBits(_, _, _, _, _, _, _)
SumBits(n, x, m, y, sign, carry, acc) ==
    IF Len(acc) = Len(x) \/ carry \notin {0 - 1, 0, 1}
    THEN [n |-> n + sign * m + carry, frac |-> acc]
    ELSE SumBits(n, x, m, y, sign,
                 (x[Len(x) - Len(acc)] + sign * y[Len(x) - Len(acc)] + carry + 2) \div 2 - 1,
                 <<(x[Len(x) - Len(acc)] + sign * y[Len(x) - Len(acc)] + carry + 2) % 2>> \o acc)

SumMag(x, y, sign) ==
    SumBits(x.n, Pad(x.frac, Longer(x.frac, y.frac)), y.n, Pad(y.frac, Longer(x.frac, y.frac)),
            sign, 0, <<>>)

AddMag(x, y) == SumMag(x, y, 1)

\* x - y for magnitudes with y <= x
SubMag(x, y) == SumMag(x, y, 0 - 1)

MagLeq(x, y) ==
    LET k    == Longer(x.frac, y.frac)
        px   == Pad(x.frac, k)
        py   == Pad(y.frac, k)
        diff == {i \in 1..k : px[i] # py[i]}
    IN  \/ x.n < y.n
        \/ /\ x.n = y.n
           /\ diff = {} \/ px[CHOOSE i \in diff : \A j \in diff : i <= j] = 0

\* m * k for a natural k: the digits of m.frac times k, from the last back
\* to the first, each taking the carry of the digits after it (which is
\* never negative: the test of it has TLC compute it step by step)
RECURSIVE FracTimes(_, _, _, _)
FracTimes(m, k, carry, acc) ==
    IF Len(acc) = Len(m.frac) \/ carry < 0 THEN [n |-> m.n * k + carry, frac |-> acc]
    ELSE FracTimes(m, k, (m.frac[Len(m.frac) - Len(acc)] * k + carry) \div 2,
                   <<(m.frac[Len(m.frac) - Len(acc)] * k + carry) % 2>> \o acc)

MagTimesNat(m, k) == FracTimes(m, k, 0, <<>>)

Halved(m) == [n |-> m.n \div 2, frac |-> <<m.n % 2>> \o m.frac]

\* m * 0.bits, from the i-th digit of bits back to the first: acc is m times
\* the digits after the i-th (and never negative, tested as in FracTimes)
RECURSIVE MagTimesFrac(_, _, _, _)
MagTimesFrac(m, bits, i, acc) ==
    IF i = 0 \/ acc.n < 0 THEN acc
    ELSE MagTimesFrac(m, bits, i - 1, Halved(AddMag(IF bits[i] = 1 THEN m ELSE ZeroMag, acc)))

\* the natural m * 2^k, for k no less than the number of digits of m.frac
RECURSIVE Shifted(_, _, _)
Shifted(n, bits, k) ==
    IF k = 0 THEN n
    ELSE IF bits = <<>> THEN Shifted(2 * n, bits, k - 1)
    ELSE Shifted(2 * n + Head(bits), Tail(bits), k - 1)

Rounded(m) == RoundToDouble(m.n, m.frac, FALSE)

\* a + b
FAdd(a, b) ==
    IF a.neg = b.neg THEN Float(a.neg, Rounded(AddMag(Mag(a), Mag(b))))
    ELSE IF Mag(a) = Mag(b) THEN Float(FALSE, ZeroMag)
    ELSE IF MagLeq(Mag(b), Mag(a)) THEN Float(a.neg, Rounded(SubMag(Mag(a), Mag(b))))
    ELSE Float(b.neg, Rounded(SubMag(Mag(b), Mag(a))))

\* a - b
FSub(a, b) == FAdd(a, [b EXCEPT !.neg = ~b.neg])

\* a * b
FMul(a, b) ==
    Float(a.neg # b.neg,
          Rounded(AddMag(MagTimesNat(Mag(a), b.n),
                         MagTimesFrac(Mag(a), b.frac, Len(b.frac), ZeroMag))))

\* a / b for b # 0 (the divisor of the code is never 0: lines 188 and 381);
\* a and b, scaled by one power of 2 to whole numbers, stay below 2^30
FDiv(a, b) ==
    LET k == Longer(a.frac, b.frac)
    IN  Float(a.neg # b.neg, Quotient(Shifted(a.n, a.frac, k), Shifted(b.n, b.frac, k)))

\* a <= b
FLeq(a, b) ==
    IF Mag(a) = ZeroMag /\ Mag(b) = ZeroMag THEN TRUE
    ELSE IF a.neg # b.neg THEN a.neg
    ELSE IF a.neg THEN MagLeq(Mag(b), Mag(a))
    ELSE MagLeq(Mag(a), Mag(b))

\* truth value of a Python value, and the value of "a or b"
Truthy(v) ==
    CASE v.t = "none" -> FALSE
      [] v.t = "int" -> v.n # 0
      [] v.t = "float" -> Mag(v) # ZeroMag
      [] v.t = "str" -> v.s # <<>>
      [] v.t = "list" -> v.l # <<>>
      [] v.t \in {"dict", "attrdict"} -> v.items # <<>>
      [] OTHER -> TRUE

PyOr(a, b) == IF Truthy(a) THEN a ELSE b

\* d[k] = v on the items of a dict: replace in place, or append
ItemSet(items, k, v) ==
    IF HasKey(items, k)
    THEN [i \in 1..Len(items) |-> IF items[i][1] = k THEN <<k, v>> ELSE items[i]]
    ELSE Append(items, <<k, v>>)

----------------------------------------------------------------------------
(* Clickable map: build_feature_collection *)

heightMin == 200000
heightSpan == 700000

\* a feature of the geometry, as the GeoJSON gives it
Feature(st_nm) ==
    PyDict(<< <<"type", PyStr(<<"Feature">>)>>,
              <<"properties", PyDict(<< <<"ST_NM", PyStr(st_nm)>> >>)>> >>)

FeatureProps(f) == ItemGet(f.items, "properties", PyNone)
Prop(f, k) == ItemGet(FeatureProps(f).items, k, PyNone)

\* vals = {to_st_nm(r["state"]): float(r["value"] or 0) for _, r in df_plot.iterrows()},
\* row after row from the i-th on
RECURSIVE ValsFrom(_, _, _)
ValsFrom(df, i, acc) ==
    IF i > Len(df) THEN acc
    ELSE ValsFrom(df, i + 1,
                  Append(acc, <<to_st_nm(df[i].state), float(PyOr(df[i].value, PyInt(0)))>>))
Vals(df) == ValsFrom(df, 1, <<>>)

\* the values of a dict: those of the pairs no later pair has replaced
Values(items) ==
    {items[i][2] : i \in {j \in 1..Len(items) :
                            \A k \in (j + 1)..Len(items) : items[k][1] # items[j][1]}}

FMin(S) == CHOOSE x \in S : \A y \in S : FLeq(x, y)
FMax(S) == CHOOSE x \in S : \A y \in S : FLeq(y, x)

Vmin(vals) == IF vals # <<>> THEN FMin(Values(vals)) ELSE PyFloat(0, 1)
Vmax(vals) == IF vals # <<>> THEN FMax(Values(vals)) ELSE PyFloat(1, 1)
\* line 188 with the difference taken the other way round
Rng_reversed(vals) == PyOr(FSub(Vmin(vals), Vmax(vals)), PyFloat(1, 1))
Rng(vals) == PyOr(FSub(Vmax(vals), Vmin(vals)), PyFloat(1, 1))

\* Objects.  A heap is the sequence of the dicts and lists that exist, each
\* at its address; a dict or list holds the dicts and lists that are its
\* parts by reference, so that two names may stand for one object and a
\* write through one shows through the other
Ref(a) == [t |-> "ref", a |-> a]

\* the value a name stands for, read off the heap; items and parts are
\* those of a dict and a list from the i-th on
RECURSIVE ValueAt(_, _)
RECURSIVE ValueOfItems(_, _, _, _)
RECURSIVE ValueOfParts(_, _, _, _)
ValueOfItems(heap, items, i, acc) ==
    IF i > Len(items) THEN acc
    ELSE ValueOfItems(heap, items, i + 1,
                      Append(acc, <<items[i][1], ValueAt(heap, items[i][2])>>))
ValueOfParts(heap, parts, i, acc) ==
    IF i > Len(parts) THEN acc
    ELSE ValueOfParts(heap, parts, i + 1, Append(acc, ValueAt(heap, parts[i])))
ValueAt(heap, x) ==
    IF x.t # "ref" THEN x
    ELSE IF heap[x.a].t = "dict" THEN PyDict(ValueOfItems(heap, heap[x.a].items, 1, <<>>))
    ELSE PyList(ValueOfParts(heap, heap[x.a].l, 1, <<>>))

\* the value v built of new objects all the way down, as a parser builds
\* it: the heap afterwards, and the reference to v (v itself if it is
\* neither a dict nor a list); items and parts are those of a dict and a
\* list from the i-th on
RECURSIVE Allocated(_, _)
RECURSIVE AllocatedItems(_, _, _, _)
RECURSIVE AllocatedItemsRest(_, _, _, _)
RECURSIVE AllocatedParts(_, _, _, _)
RECURSIVE AllocatedPartsRest(_, _, _, _)
AllocatedItems(heap, items, i, acc) ==
    IF i > Len(items)
    THEN [heap |-> Append(heap, PyDict(acc)), at |-> Ref(Len(heap) + 1)]
    ELSE AllocatedItemsRest(Allocated(heap, items[i][2]), items, i, acc)
AllocatedItemsRest(r, items, i, acc) ==
    AllocatedItems(r.heap, items, i + 1, Append(acc, <<items[i][1], r.at>>))
AllocatedParts(heap, parts, i, acc) ==
    IF i > Len(parts)
    THEN [heap |-> Append(heap, PyList(acc)), at |-> Ref(Len(heap) + 1)]
    ELSE AllocatedPartsRest(Allocated(heap, parts[i]), parts, i, acc)
AllocatedPartsRest(r, parts, i, acc) ==
    AllocatedParts(r.heap, parts, i + 1, Append(acc, r.at))
Allocated(heap, v) ==
    IF v.t = "dict" THEN AllocatedItems(heap, v.items, 1, <<>>)
    ELSE IF v.t = "list" THEN AllocatedParts(heap, v.l, 1, <<>>)
    ELSE [heap |-> heap, at |-> v]

\* dict(f) in the place of line 195: a new dict that holds the parts of f
\* themselves
json_loads_dumps_shallow(heap, f) ==
    [heap |-> Append(heap, heap[f.a]), at |-> Ref(Len(heap) + 1)]

\* line 195, json.loads(json.dumps(f)): json.dumps writes out the value f
\* stands for, json.loads builds what it reads of new objects
json_loads_dumps(heap, f) == Allocated(heap, ValueAt(heap, f))

\* x[k] where x is a dict of the heap: a value, or the reference to a part
GetItem(heap, x, k) == ItemGet(heap[x.a].items, k, PyNone)

\* lines 196-201: the six writes g["properties"][k] = ..., each into the
\* dict that g["properties"] refers to
EnrichedProperties(items, v, norm) ==
    LET p1 == ItemSet(items, "metric_value", v)
        p2 == ItemSet(p1, "height",
                      FAdd(PyFloat(heightMin, 1), FMul(norm, PyFloat(heightSpan, 1))))
        p3 == ItemSet(p2, "fill_r", PyInt(66))
        p4 == ItemSet(p3, "fill_g", PyInt(135))
        p5 == ItemSet(p4, "fill_b", PyInt(245))
    IN  ItemSet(p5, "fill_a", PyInt(180))

\* lines 196-202 on the copy of line 195: the heap after the writes, and g
EnrichedFeature(copy, v, norm) ==
    [heap |-> [copy.heap EXCEPT ![GetItem(copy.heap, copy.at, "properties").a] =
                                   PyDict(EnrichedProperties(@.items, v, norm))],
     g    |-> copy.at]

\* lines 192-202, one turn of the loop for the feature f
Turn(heap, f, vals, vmin, rng) ==
    LET st_nm == GetItem(heap, GetItem(heap, f, "properties"), "ST_NM")
        v     == ItemGet(vals, st_nm, PyFloat(0, 1))
    IN  EnrichedFeature(json_loads_dumps(heap, f), v, FDiv(FSub(v, vmin), rng))

\* lines 190-202: the loop from the i-th of the features on; feats is the
\* list built so far
RECURSIVE FeatureLoop(_, _, _, _, _, _, _)
RECURSIVE FeatureLoopRest(_, _, _, _, _, _, _)
FeatureLoop(heap, features, vals, vmin, rng, i, feats) ==
    IF i > Len(features) THEN [heap |-> heap, feats |-> feats]
    ELSE FeatureLoopRest(Turn(heap, features[i], vals, vmin, rng),
                         features, vals, vmin, rng, i, feats)
FeatureLoopRest(r, features, vals, vmin, rng, i, feats) ==
    FeatureLoop(r.heap, features, vals, vmin, rng, i + 1, Append(feats, r.g))

\* INDIA_GEOJSON as the module holds it (line 43): objects that
\* json.loads built of the document
GeometryObjects(geojson) == Allocated(<<>>, PyList(geojson))

\* what a call has done when its loop is through: the list under "features"
\* of the dict it returns, and INDIA_GEOJSON["features"] as it is then
CallOutcome(geometry, done) ==
    [features      |-> ValueOfParts(done.heap, done.feats, 1, <<>>),
     INDIA_GEOJSON |-> ValueAt(done.heap, geometry.at).l]

\* the features of the geometry a metric row matches
MatchedOnly(heap, features, vals) ==
    LET keep == {i \in 1..Len(features) :
                    HasKey(vals, GetItem(heap, GetItem(heap, features[i], "properties"),
                                         "ST_NM"))}
        RECURSIVE Walk(_)
        Walk(i) == IF i > Len(features) THEN <<>>
                   ELSE (IF i \in keep THEN <<features[i]>> ELSE <<>>) \o Walk(i + 1)
    IN  Walk(1)

\* lines 186-203 with a loop over the matched features only
LoopOverMatched(geometry, vals) ==
    CallOutcome(geometry,
                FeatureLoop(geometry.heap,
                            MatchedOnly(geometry.heap, geometry.heap[geometry.at.a].l, vals),
                            vals, Vmin(vals), Rng(vals), 1, <<>>))

\* lines 186-203: vmin and rng, the loop over INDIA_GEOJSON["features"], and
\* the return
LoopOverAll(geometry, vals) ==
    CallOutcome(geometry,
                FeatureLoop(geometry.heap, geometry.heap[geometry.at.a].l,
                            vals, Vmin(vals), Rng(vals), 1, <<>>))

\* a loop that skips the features no metric row matches
build_features_matched_only(df, geojson) == LoopOverMatched(GeometryObjects(geojson), Vals(df))

\* build_feature_collection(df_plot) where INDIA_GEOJSON["features"] is
\* geojson: what it returns and what it leaves of INDIA_GEOJSON
build_feature_collection(df, geojson) == LoopOverAll(GeometryObjects(geojson), Vals(df))

----------------------------------------------------------------------------
(* Selection resolution: get_selected_state_from_event *)

hasattr(v, a) == v.t \in {"obj", "attrdict"} /\ HasKey(v.items, a)

\* the outcome of a call that an exception leaves
Raised == [t |-> "raise"]

\* v.get(k, default): only a dict has get, any other value gives AttributeError
dict_get(v, k, default) ==
    IF isinstance_dict(v) THEN ItemGet(v.items, k, default) ELSE Raised

\* lines 207-211: the selection of the event
SelectionOf(ev) ==
    IF hasattr(ev, "selection") THEN ItemGet(ev.items, "selection", PyNone)
    ELSE IF isinstance_dict(ev) THEN ItemGet(ev.items, "selection", ev)
    ELSE PyNone

\* lines 221-225: the loop over o.values(), from the i-th value on
RECURSIVE FirstLayerObjects(_, _)
FirstLayerObjects(items, i) ==
    IF i > Len(items) THEN <<>>
    ELSE LET v == items[i][2]
         IN  IF isinstance_list(v) /\ v.l # <<>> THEN v.l
             ELSE IF isinstance_dict(v) THEN <<v>>
             ELSE FirstLayerObjects(items, i + 1)

\* lines 215-227: the selected objects of a selection that is a dict
ObjectsOf(sel) ==
    IF HasKey(sel.items, "objects")
    THEN LET o == ItemGet(sel.items, "objects", PyNone)
         IN  IF isinstance_list(o) THEN o.l
             ELSE IF isinstance_dict(o) THEN FirstLayerObjects(o.items, 1)
             ELSE <<>>
    ELSE IF HasKey(sel.items, "object")
    THEN <<ItemGet(sel.items, "object", PyNone)>>
    ELSE <<>>

\* lines 231-234 taking an object that has no "properties" as its own properties
PropertiesOf_or_object(objs) ==
    LET obj0 == objs[1]
        obj  == IF isinstance_dict(obj0) /\ HasKey(obj0.items, "object")
                THEN ItemGet(obj0.items, "object", PyNone)
                ELSE obj0
    IN  IF isinstance_dict(obj) THEN ItemGet(obj.items, "properties", obj) ELSE PyNone

\* lines 231-234 without the isinstance test of line 234
PropertiesOf_unguarded(objs) ==
    LET obj0 == objs[1]
        obj  == IF isinstance_dict(obj0) /\ HasKey(obj0.items, "object")
                THEN ItemGet(obj0.items, "object", PyNone)
                ELSE obj0
    IN  dict_get(obj, "properties", PyNone)

\* lines 231-234: the properties of the first selected object
PropertiesOf(objs) ==
    LET obj0 == objs[1]
        obj  == IF isinstance_dict(obj0) /\ HasKey(obj0.items, "object")
                THEN ItemGet(obj0.items, "object", PyNone)
                ELSE obj0
    IN  IF isinstance_dict(obj) THEN dict_get(obj, "properties", PyNone) ELSE PyNone

\* line 238: props.get("ST_NM") or props.get("state") or props.get("name")
AliasValue(props) ==
    PyOr(PyOr(ItemGet(props.items, "ST_NM", PyNone),
              ItemGet(props.items, "state", PyNone)),
         ItemGet(props.items, "name", PyNone))

\* lines 238-241: the DB-style name the properties give, or None
NameOfProperties(props) ==
    LET st_nm == AliasValue(props)
    IN  IF isinstance_str(st_nm) /\ strip(st_nm.s) # <<>> THEN stnm_to_db(PyStr(strip(st_nm.s)))
        ELSE PyNone

get_selected_state_from_event(ev) ==
    LET sel == SelectionOf(ev)
    IN  IF ~isinstance_dict(sel) THEN PyNone
        ELSE IF ObjectsOf(sel) = <<>> THEN PyNone
        ELSE IF PropertiesOf(ObjectsOf(sel)) = Raised THEN Raised
        ELSE IF ~isinstance_dict(PropertiesOf(ObjectsOf(sel))) THEN PyNone
        ELSE NameOfProperties(PropertiesOf(ObjectsOf(sel)))

----------------------------------------------------------------------------
(* Shared helpers: the queries of the store *)

\* the product of run_df for a query that returns no row is an empty frame;
\* SQL NULL arrives as None
RECURSIVE SumOf(_, _)
SumOf(rows, col) ==
    IF rows = {} THEN 0
    ELSE LET r == CHOOSE x \in rows : TRUE
         IN  r[col] + SumOf(rows \ {r}, col)

\* SUM(col) over the rows: NULL when there is no row
SqlSum(rows, col) == IF rows = {} THEN PyNone ELSE PyInt(SumOf(rows, col))

\* ORDER BY on the names of the store, by their place in the collation
Collation == << <<"Goa">>, <<"Kerala">>, <<"Orissa">>, <<"Sikkim">> >>
NameRank(v) == CHOOSE i \in 1..Len(Collation) : Collation[i] = v.s

RECURSIVE SortedNames(_)
SortedNames(S) ==
    IF S = {} THEN <<>>
    ELSE LET m == CHOOSE x \in S : \A y \in S : NameRank(x) <= NameRank(y)
         IN  <<m>> \o SortedNames(S \ {m})

RECURSIVE SortedInts(_)
SortedInts(S) ==
    IF S = {} THEN <<>>
    ELSE LET m == CHOOSE x \in S : \A y \in S : x <= y
         IN  <<m>> \o SortedInts(S \ {m})

\* the store as a query sent now finds it
Db == [aggregated_transaction |-> aggregated_transaction, map_user |-> map_user]

\* years_quarters(), uncached, over the store db
years_quarters_query(db) ==
    IF db.aggregated_transaction = {}
    THEN [years |-> <<2021>>, quarters |-> <<1, 2, 3, 4>>]
    ELSE [years |-> SortedInts({r.year : r \in db.aggregated_transaction}),
          quarters |-> SortedInts({r.quarter : r \in db.aggregated_transaction})]

\* years_quarters() under st.cache_data
years_quarters_uncached(db) == years_quarters_query(db)
years_quarters(db) ==
    IF years_quarters_cache # Unset THEN years_quarters_cache ELSE years_quarters_query(db)

\* quarters_for_year(y), uncached
quarters_for_year_query(db, y) ==
    LET qs == SortedInts({r.quarter : r \in {x \in db.aggregated_transaction : x.year = y}})
    IN  IF qs # <<>> THEN qs ELSE <<1, 2, 3, 4>>

\* quarters_for_year(y) under st.cache_data
quarters_for_year(db, y) ==
    IF y \in DOMAIN quarters_for_year_cache THEN quarters_for_year_cache[y]
    ELSE quarters_for_year_query(db, y)

TxnRows(db, y, q) == {r \in db.aggregated_transaction : r.year = y /\ r.quarter = q}
UserRows(db, y, q) == {r \in db.map_user : r.year = y /\ r.quarter = q}

\* the rows of SELECT state, SUM(col) AS value ... GROUP BY state, value made
\* numeric with fillna(0.0); a set: the store returns the rows in any order
GroupByState(rows, col) ==
    {[state |-> st, value |-> float(PyOr(SqlSum({r \in rows : r.state = st}, col), PyInt(0)))] :
        st \in {r.state : r \in rows}}

df_state_txn_amount(db, y, q) == GroupByState(TxnRows(db, y, q), "transaction_amount")
df_state_users(db, y, q) == GroupByState(UserRows(db, y, q), "registered_users")

\* india_txn_kpis without "or 0": a NULL aggregate stays None
india_txn_kpis_as_stored(db, y, q) ==
    LET amt == SqlSum(TxnRows(db, y, q), "transaction_amount")
    IN  <<IF amt = PyNone THEN PyNone ELSE float(amt),
          SqlSum(TxnRows(db, y, q), "transaction_count")>>

india_txn_kpis(db, y, q) ==
    <<float(PyOr(SqlSum(TxnRows(db, y, q), "transaction_amount"), PyInt(0))),
      PyOr(SqlSum(TxnRows(db, y, q), "transaction_count"), PyInt(0))>>

india_user_kpis(db, y, q) ==
    <<PyOr(SqlSum(UserRows(db, y, q), "registered_users"), PyInt(0)),
      PyOr(SqlSum(UserRows(db, y, q), "app_opens"), PyInt(0))>>

state_txn_kpis(db, state, y, q) ==
    LET rows == {r \in TxnRows(db, y, q) : r.state = state}
    IN  <<float(PyOr(SqlSum(rows, "transaction_amount"), PyInt(0))),
          PyOr(SqlSum(rows, "transaction_count"), PyInt(0))>>

state_user_kpis(db, state, y, q) ==
    LET rows == {r \in UserRows(db, y, q) : r.state = state}
    IN  <<PyOr(SqlSum(rows, "registered_users"), PyInt(0)),
          PyOr(SqlSum(rows, "app_opens"), PyInt(0))>>

\* SUM(col) over rows in which col may be NULL: NULLs are skipped, and the
\* sum is NULL when no row has a value
RECURSIVE SumOfValues(_, _)
SumOfValues(rows, col) ==
    IF rows = {} THEN 0
    ELSE LET r == CHOOSE x \in rows : TRUE
         IN  (IF r[col] = PyNone THEN 0 ELSE r[col].n) + SumOfValues(rows \ {r}, col)

SqlSumSkippingNulls(rows, col) ==
    IF \A r \in rows : r[col] = PyNone THEN PyNone ELSE PyInt(SumOfValues(rows, col))

\* sequences over S of length at most n, no element twice
RECURSIVE DistinctSeqs(_, _)
DistinctSeqs(S, n) ==
    IF n = 0 THEN {<<>>}
    ELSE LET shorter == DistinctSeqs(S, n - 1)
             longest == {r \in shorter : Len(r) = n - 1}
         IN  shorter \cup UNION {{Append(q, x) : x \in S \ {q[i] : i \in 1..Len(q)}} :
                                  q \in longest}

\* every ordering of a set of rows
Orderings(S) == {q \in DistinctSeqs(S, Cardinality(S)) : Len(q) = Cardinality(S)}

\* ORDER BY col DESC of PostgreSQL: a precedes b.  NULLs come first under
\* DESC unless the query says NULLS LAST
KeyBefore(a, b, col, nulls_last) ==
    IF a[col] = PyNone /\ b[col] = PyNone THEN FALSE
    ELSE IF a[col] = PyNone THEN ~nulls_last
    ELSE IF b[col] = PyNone THEN nulls_last
    ELSE a[col].n > b[col].n

\* ORDER BY col DESC: the orders in which the store may return the rows.
\* The rows no row precedes come first, in any order among themselves (the
\* query fixes no order among rows equal in col), then the other rows alike.
RECURSIVE OrderByDesc(_, _, _)
OrderByDesc(rows, col, nulls_last) ==
    IF rows = {} THEN {<<>>}
    ELSE LET first == {r \in rows : \A x \in rows : ~KeyBefore(x, r, col, nulls_last)}
         IN  {h \o t : h \in Orderings(first), t \in OrderByDesc(rows \ first, col, nulls_last)}

\* a DataFrame: its rows in order
PyFrame(rows) == [t |-> "frame", rows |-> rows]

Limit(q, n) == SubSeq(q, 1, IF Len(q) < n THEN Len(q) ELSE n)

topGeoLimit == 10
topPincodesLimit == 25

\* the groups of top_geo: GROUP BY entity_name with SUM(count), SUM(amount)
TopGeoGroups(state, y, q, etype) ==
    LET rows == {r \in top_map : r.state = state /\ r.year = y /\ r.quarter = q
                                 /\ r.entity_type = etype}
    IN  {[name |-> n,
          txns |-> SqlSumSkippingNulls({r \in rows : r.entity_name = n}, "count"),
          amount |-> SqlSumSkippingNulls({r \in rows : r.entity_name = n}, "amount")] :
            n \in {r.entity_name : r \in rows}}

\* top_geo(state, y, q, etype): ORDER BY amount DESC NULLS LAST LIMIT 10; the
\* frames the store may return
top_geo(state, y, q, etype) ==
    {PyFrame(Limit(rows, topGeoLimit)) :
        rows \in OrderByDesc(TopGeoGroups(state, y, q, etype), "amount", TRUE)}

\* the groups of the pincode query of render_cs5: GROUP BY entity_name, state
TopPincodeGroups(y, q) ==
    LET rows == {r \in top_user : r.year = y /\ r.quarter = q /\ r.entity_type = "Pincode"}
    IN  {[pincode |-> k[1], state |-> k[2],
          users |-> SqlSumSkippingNulls({r \in rows : <<r.entity_name, r.state>> = k},
                                        "registered_users")] :
            k \in {<<r.entity_name, r.state>> : r \in rows}}

\* lines 722-726: ORDER BY users DESC LIMIT 25; the frames the store may return
top_pincodes_by_users(y, q) ==
    {PyFrame(Limit(rows, topPincodesLimit)) :
        rows \in OrderByDesc(TopPincodeGroups(y, q), "users", FALSE)}

\* render_cs2.  A period is <<year, quarter>>; db is the two user tables as
\* a query finds them.
PeriodsOf(table) == {<<r.year, r.quarter>> : r \in table}

\* ORDER BY quarter DESC, year DESC
PeriodNotAfter_quarter_first(p, o) == p[2] > o[2] \/ (p[2] = o[2] /\ p[1] >= o[1])

\* ORDER BY year DESC, quarter DESC: p comes no later than o
PeriodNotAfter(p, o) == p[1] > o[1] \/ (p[1] = o[1] /\ p[2] >= o[2])

\* lines 449-458: latest_common_period(), the first row of the join in the
\* order of line 455, or (None, None)
latest_common_period(db) ==
    LET joined == PeriodsOf(db.aggregated_user) \cap PeriodsOf(db.map_user)
    IN  IF joined = {} THEN <<PyNone, PyNone>>
        ELSE LET p == CHOOSE x \in joined : \A o \in joined : PeriodNotAfter(x, o)
             IN  <<PyInt(p[1]), PyInt(p[2])>>

AggUserRows(db, y, q) == {r \in db.aggregated_user : r.year = y /\ r.quarter = q}

\* lines 467-473: users per brand; GROUP BY makes one group of the rows
\* whose brand is NULL (avg_share_pct and the order of the rows are not
\* followed)
Cs2Brands(db, y, q) ==
    {[brand |-> b, users |-> SumOf({r \in AggUserRows(db, y, q) : r.brand = b}, "count")] :
        b \in {r.brand : r \in AggUserRows(db, y, q)}}

\* lines 480-489: registered users and app opens per state (opens_per_user
\* and the order of the rows are not followed)
Cs2Engagement(db, y, q) ==
    {[state |-> st,
      reg_users |-> SumOf({r \in UserRows(db, y, q) : r.state = st}, "registered_users"),
      app_opens |-> SumOf({r \in UserRows(db, y, q) : r.state = st}, "app_opens")] :
        st \in {r.state : r \in UserRows(db, y, q)}}

\* lines 495-510: the brand with the most users of each state; ROW_NUMBER
\* numbers the brands that tie in any order, so the frames the store may
\* return are these
Cs2TopBrandFrames(db, y, q) ==
    LET sts == {r.state : r \in AggUserRows(db, y, q)}
        users(st, b) ==
            SumOf({r \in AggUserRows(db, y, q) : r.state = st /\ r.brand = b}, "count")
        brands(st) == {r.brand : r \in {x \in AggUserRows(db, y, q) : x.state = st}}
        top(st) == {b \in brands(st) : \A o \in brands(st) : users(st, o) <= users(st, b)}
    IN  {{[state |-> st, top_brand |-> f[st], top_brand_users |-> users(st, f[st])] : st \in sts} :
            f \in {g \in [sts -> {r.brand : r \in AggUserRows(db, y, q)}] :
                      \A st \in sts : g[st] \in top(st)}}

\* lines 513-518: the brands of the period without the NULL that dropna()
\* takes out (ORDER BY brand follows the collation of the store; the order
\* of the list is not followed)
Cs2AvailableBrands(db, y, q) == {r.brand : r \in AggUserRows(db, y, q)} \ {PyNone}

\* line 520: what st.selectbox may return for the options: any of them, the
\* first unless the user chose another; None when there is none
Cs2BrandChoices(av_brands) == IF av_brands = {} THEN {PyNone} ELSE av_brands

\* lines 522-528: the users of a brand, period by period
Cs2BrandSeries(db, pick) ==
    {[year |-> p[1], quarter |-> p[2],
      users |-> SumOf({r \in db.aggregated_user : r.brand = pick /\ <<r.year, r.quarter>> = p},
                      "count")] :
        p \in PeriodsOf({r \in db.aggregated_user : r.brand = pick})}

\* lines 536-556: per state the count of the brand and of all brands, joined
\* to the engagement of the state where there is one (the two ratios and the
\* order of the rows are not followed); a state whose count is 0 has a NULL
\* share and is left out
Cs2BrandShare(db, pick, y, q) ==
    LET total(st) == SumOf({r \in AggUserRows(db, y, q) : r.state = st}, "count")
        of_brand(st) ==
            SumOf({r \in AggUserRows(db, y, q) : r.state = st /\ r.brand = pick}, "count")
    IN  {[state |-> st, brand_count |-> of_brand(st), count |-> total(st),
          engaged |-> \E e \in Cs2Engagement(db, y, q) : e.state = st] :
            st \in {r.state : r \in {x \in AggUserRows(db, y, q) : total(x.state) # 0}}}

\* the queries of render_cs2 in the order in which a call sends them
Cs2Queries == <<"latest_common_period", "brands", "eng", "tb", "av_brands", "ts", "bse">>
Cs2Rank(p) == CHOOSE i \in 1..Len(Cs2Queries) : Cs2Queries[i] = p

Cs2Db == [aggregated_user |-> aggregated_user, map_user |-> map_user]

\* the user tables as the query p of a call finds them, when the ETL adds
\* the row of load to its table just before the call comes to the query
\* load.at (load.at = "none": no row is added while the call runs)
Cs2DbAt(load, p) ==
    IF load.at = "none" \/ Cs2Rank(load.at) > Cs2Rank(p) THEN Cs2Db
    ELSE IF load.table = "aggregated_user"
    THEN [Cs2Db EXCEPT !.aggregated_user = @ \cup {load.row}]
    ELSE [Cs2Db EXCEPT !.map_user = @ \cup {load.row}]

\* lines 464-518 and 520-560 for the period (y, q) of line 460
Cs2Rendered(year, quarter, load, y, q, pick, tb) ==
    LET brands == Cs2Brands(Cs2DbAt(load, "brands"), y, q)
        eng    == Cs2Engagement(Cs2DbAt(load, "eng"), y, q)
        ts     == IF Truthy(pick) THEN Cs2BrandSeries(Cs2DbAt(load, "ts"), pick) ELSE Unset
        bse    == IF Truthy(pick) THEN Cs2BrandShare(Cs2DbAt(load, "bse"), pick, y, q)
                  ELSE Unset
    IN  [year |-> year, quarter |-> quarter,
         elements |-> <<"header", "caption">>
             \o (IF brands # {} THEN <<"subheader 1", "chart 1">> ELSE <<>>)
             \o <<"subheader 2">> \o (IF eng # {} THEN <<"chart 2">> ELSE <<>>)
             \o <<"subheader 3", "table 3", "subheader 4", "selectbox 4">>
             \o (IF Truthy(pick) /\ ts # {} THEN <<"chart 4">> ELSE <<>>)
             \o <<"subheader 5">>
             \o (IF Truthy(pick) THEN <<"table 5">> ELSE <<>>)
             \o (IF Truthy(pick) /\ bse # {} THEN <<"map 5">> ELSE <<>>),
         common |-> <<PyInt(y), PyInt(q)>>, brands |-> brands, eng |-> eng, tb |-> tb,
         av_brands |-> Cs2AvailableBrands(Cs2DbAt(load, "av_brands"), y, q),
         pick |-> pick, ts |-> ts, bse |-> bse]

\* render_cs2(year, quarter): the outcomes a call may have, each what the
\* call was given and what it rendered, when the ETL adds the row of load
\* while it runs; the store returns one of the frames of analysis 3, the
\* selectbox of analysis 4 one of its options
render_cs2(year, quarter, load) ==
    LET common == latest_common_period(Cs2DbAt(load, "latest_common_period"))
    IN  IF common[1] = PyNone
        THEN {[year |-> year, quarter |-> quarter, elements |-> <<"warning">>,
               common |-> common, brands |-> Unset, eng |-> Unset, tb |-> Unset,
               av_brands |-> Unset, pick |-> Unset, ts |-> Unset, bse |-> Unset]}
        ELSE {Cs2Rendered(year, quarter, load, common[1].n, common[2].n, pick, tb) :
                 pick \in Cs2BrandChoices(Cs2AvailableBrands(Cs2DbAt(load, "av_brands"),
                                                             common[1].n, common[2].n)),
                 tb \in Cs2TopBrandFrames(Cs2DbAt(load, "tb"), common[1].n, common[2].n)}

----------------------------------------------------------------------------
(* Home: render_home *)

\* line 301: key=f"home_map_{view}_{y}_{q}", kept as the parts the f-string joins
MapKey_constant(view, y, q) == [t |-> "key", parts |-> <<"home_map">>]
MapKey(view, y, q) == [t |-> "key", parts |-> <<"home_map", view, y, q>>]

\* what st.pydeck_chart returns while nothing is selected, and after a click
\* on the feature f of the layer "india-states" (selection_mode="single-object")
EmptySelection ==
    PyAttrDict(<< <<"selection",
        PyAttrDict(<< <<"indices", PyDict(<<>>)>>, <<"objects", PyDict(<<>>)>> >>)>> >>)

SelectionPayload(i, f) ==
    PyAttrDict(<< <<"selection",
        PyAttrDict(<< <<"indices", PyDict(<< <<"india-states", PyList(<<PyInt(i - 1)>>)>> >>)>>,
                      <<"objects", PyDict(<< <<"india-states", PyList(<<f>>)>> >>)>> >>)>> >>)

\* lines 305-306 storing whatever the click resolved to
SessionAfterClick_always(session, c) == c

\* lines 305-306: if clicked: st.session_state["home_clicked_state"] = clicked
SessionAfterClick(session, c) == IF Truthy(c) THEN c ELSE session

\* line 315: the state of the first row of df sorted by value, descending;
\* any of the rows with the greatest value may come first
TopStates(df) == {r.state : r \in {x \in df : \A z \in df : FLeq(z.value, x.value)}}

IndexOf(q, x) == (CHOOSE i \in 1..Len(q) : q[i] = x /\ \A j \in 1..(i - 1) : q[j] # x) - 1
Contains(q, x) == \E i \in 1..Len(q) : q[i] = x

\* lines 318-324: the index handed to the State selectbox (from 0)
StateIndex(preferred, default_state, states) ==
    IF Contains(states, preferred) THEN IndexOf(states, preferred)
    ELSE IF Truthy(default_state) /\ Contains(states, default_state)
    THEN IndexOf(states, default_state)
    ELSE 0

\* line 326: st.selectbox("State", states, index=idx, key="home_state"): None
\* when it has no option; the value it holds when the last pass rendered it
\* with these options and this index, which is the option the user chose
\* (pick) or the one it showed; the option at index when it is a new widget
\* (other options or another index make it one)
SelectboxState(states, idx, pick) ==
    IF states = <<>> THEN PyNone
    ELSE IF home # Unset /\ Contains(panels, "State")
            /\ home.states = states /\ home.idx = idx
    THEN (IF pick # Unset THEN pick ELSE home.state)
    ELSE states[idx + 1]

\* load_geojson() under st.cache_data, when the request of lines 39-40 does
\* not raise: the features of the document
load_geojson ==
    IF load_geojson_cache # Unset THEN load_geojson_cache.l ELSE geojson_remote

\* the request of load_geojson (line 43, before render_home) and the queries
\* of render_home, in the order of the pass; a pass fails at one of them or
\* at none.  After the State KPIs come the queries of the drill-down: in the
\* Transactions view by_category (line 335), districts_for (340),
\* pincodes_for (341) and top_geo twice (346, 348), in the Users view
\* districts_for (355), pincodes_for (356) and the queries of lines 360 and
\* 368.  The answers and the elements of the drill-down are not followed.
FailurePoints ==
    <<"load_geojson", "years_quarters", "quarters_for_year", "df_metric", "df_for_default",
      "states", "state_kpis", "by_category", "districts_for", "pincodes_for",
      "top_geo_district", "top_geo_pincode", "top_districts_users", "top_pincodes_users",
      "india_kpis">>

\* the places at which a pass for the view can fail
FailurePointsOf(view) ==
    {FailurePoints[i] : i \in 1..Len(FailurePoints)}
    \ (IF view = "Transactions" THEN {"top_districts_users", "top_pincodes_users"}
       ELSE {"by_category", "top_geo_district", "top_geo_pincode"})
PointRank(p) == CHOOSE i \in 1..Len(FailurePoints) : FailurePoints[i] = p

\* the pass got past the query p: run_df did not raise there
Passed(fail_at, p) == fail_at = "none" \/ PointRank(fail_at) > PointRank(p)

\* the elements st.* has emitted when the pass ends: each one is sent when
\* its call is reached
PanelsOf(fail_at, view, no_data) ==
    (IF Passed(fail_at, "load_geojson") THEN <<"title">> ELSE <<>>)
    \o (IF Passed(fail_at, "years_quarters") THEN <<"Year">> ELSE <<>>)
    \o (IF Passed(fail_at, "quarters_for_year") THEN <<"Quarter", "View">> ELSE <<>>)
    \o (IF Passed(fail_at, "df_metric")
        THEN <<"map_subheader", IF no_data THEN "no_data_info" ELSE "map">> ELSE <<>>)
    \o (IF Passed(fail_at, "states") THEN <<"State">> ELSE <<>>)
    \o (IF Passed(fail_at, "state_kpis") THEN <<"state_kpis">> ELSE <<>>)
    \o (IF Passed(fail_at, "top_pincodes_users") THEN <<"india_subheader">> ELSE <<>>)
    \o (IF Passed(fail_at, "india_kpis") THEN <<"india_kpis", "divider">> ELSE <<>>)

\* the store as the query p of a pass finds it, when the ETL adds the row of
\* load to its table just before the query load.at of that pass is sent
\* (load.at = "none": no row is added while the pass runs)
DbAt(load, p) ==
    IF load.at = "none" \/ PointRank(load.at) > PointRank(p) THEN Db
    ELSE IF load.table = "aggregated_transaction"
    THEN [Db EXCEPT !.aggregated_transaction = @ \cup {load.row}]
    ELSE [Db EXCEPT !.map_user = @ \cup {load.row}]

\* one pass of render_home for the widget values y, q, view; delivered is what
\* the map widget returns if the pass renders it, pick the option the user
\* has just chosen in the State selectbox (Unset: none), filter_changed
\* whether the pass follows a change of y, q or view, load the row the ETL
\* adds while the pass runs, fail_at the place at which the pass raises
\* ("none": the request and every query are answered).  A row of another quarter is
\* seen by no query after quarters_for_year: its load is a step of its own.
RenderHomePass(y, q, view, delivered, pick, filter_changed, load, fail_at) ==
    LET yq        == years_quarters(Db)
        qs        == quarters_for_year(DbAt(load, "quarters_for_year"), y)
        metric(db) == IF view = "Transactions" THEN df_state_txn_amount(db, y, q)
                      ELSE df_state_users(db, y, q)
        df_metric == metric(DbAt(load, "df_metric"))
        df_for_default == metric(DbAt(load, "df_for_default"))
        no_data   == Passed(fail_at, "df_metric") /\ df_metric = {}
        rendered  == Passed(fail_at, "df_metric") /\ df_metric # {}
        states    == SortedNames({r.state : r \in TxnRows(DbAt(load, "states"), y, q)})
    IN  /\ fail_at # "none" => fail_at \in FailurePointsOf(view)
        /\ fail_at = "load_geojson" => load_geojson_cache = Unset
        /\ fail_at = "years_quarters" => years_quarters_cache = Unset
        /\ fail_at = "quarters_for_year" => y \notin DOMAIN quarters_for_year_cache
        /\ load.at \notin {"none", "quarters_for_year"} => load.row.quarter = q
        /\ aggregated_transaction' = DbAt(load, "india_kpis").aggregated_transaction
        /\ map_user' = DbAt(load, "india_kpis").map_user
        /\ loaded' = load
        /\ load_geojson_cache' =
              IF Passed(fail_at, "load_geojson") THEN PyList(load_geojson) ELSE load_geojson_cache
        /\ issued' = (IF load_geojson_cache = Unset THEN {"load_geojson"} ELSE {})
                     \cup (IF Passed(fail_at, "load_geojson") /\ years_quarters_cache = Unset
                           THEN {"years_quarters"} ELSE {})
                     \cup (IF Passed(fail_at, "years_quarters")
                              /\ y \notin DOMAIN quarters_for_year_cache
                           THEN {"quarters_for_year"} ELSE {})
        /\ years_quarters_cache' =
              IF Passed(fail_at, "years_quarters") THEN yq ELSE years_quarters_cache
        /\ quarters_for_year_cache' =
              IF Passed(fail_at, "quarters_for_year") THEN (y :> qs) @@ quarters_for_year_cache
              ELSE quarters_for_year_cache
        /\ IF rendered
           THEN /\ \E df \in Orderings(df_metric) :
                      \E built \in {build_feature_collection(df, load_geojson)} :
                         /\ fc' = PyList(built.features)
                         /\ INDIA_GEOJSON' = built.INDIA_GEOJSON
                /\ map_key' = MapKey(view, y, q)
                /\ event' = delivered
                /\ clicked' = get_selected_state_from_event(event')
                /\ home_clicked_state' = SessionAfterClick(home_clicked_state, clicked')
           ELSE /\ fc' = Unset
                /\ INDIA_GEOJSON' =
                      IF Passed(fail_at, "load_geojson") THEN load_geojson ELSE INDIA_GEOJSON
                /\ map_key' = Unset
                /\ event' = Unset
                /\ clicked' = Unset
                /\ home_clicked_state' = home_clicked_state
        /\ panels' = PanelsOf(fail_at, view, no_data)
        /\ raised' = (fail_at # "none")
        /\ IF ~Passed(fail_at, "quarters_for_year")
           THEN home' = Unset
           ELSE \E default_state \in (IF ~Passed(fail_at, "df_for_default")
                                         \/ df_for_default = {}
                                      THEN {PyNone} ELSE TopStates(df_for_default)) :
             LET listed == IF Passed(fail_at, "states") THEN states ELSE <<>>
                 idx   == StateIndex(home_clicked_state', default_state, listed)
                 state == SelectboxState(listed, idx, pick)
                 india == IF view = "Transactions"
                          THEN india_txn_kpis(DbAt(load, "india_kpis"), y, q)
                          ELSE india_user_kpis(DbAt(load, "india_kpis"), y, q)
             IN  home' = [y |-> y, q |-> q, view |-> view, filter_changed |-> filter_changed,
                          no_data |-> ~rendered,
                          default_state |-> default_state,
                          states |-> listed, idx |-> idx, state |-> state,
                          chosen |-> listed # <<>> /\ state # listed[idx + 1],
                          state_kpis |-> IF ~Passed(fail_at, "state_kpis") THEN Unset
                                         ELSE IF view = "Transactions"
                                         THEN state_txn_kpis(DbAt(load, "state_kpis"), state, y, q)
                                         ELSE state_user_kpis(DbAt(load, "state_kpis"), state, y, q),
                          india_kpis |-> IF Passed(fail_at, "india_kpis") THEN india ELSE Unset,
                          atv |-> IF view # "Transactions" \/ ~Passed(fail_at, "india_kpis")
                                  THEN Unset
                                  ELSE IF Truthy(india[2]) THEN FDiv(india[1], float(india[2]))
                                  ELSE PyInt(0)]
        /\ UNCHANGED <<nmvars, df_plot, ev_case, geojson_remote, csvars>>

\* a pass in which the store answers every query
RenderHome(y, q, view, delivered, pick, filter_changed, load) ==
    RenderHomePass(y, q, view, delivered, pick, filter_changed, load, "none")

----------------------------------------------------------------------------
(* Specification of geometry enrichment: a geometry and a table of metric  *)
(* rows are drawn, and build_feature_collection is applied to them.        *)

MaxFeatures == 3
MaxRows == 2
MaxValue == 3

BoundaryNames == {<<"Odisha">>, <<"Kerala">>, <<"Goa">>, <<"Delhi">>}
RowStates == {<<"Orissa">>, <<"Kerala">>, <<"Sikkim">>}
RowValues == {PyNone} \cup {PyInt(n) : n \in 0..MaxValue}

NoRepeat(q) == \A i, j \in 1..Len(q) : i # j => q[i] # q[j]

\* geometries: up to MaxFeatures features with distinct boundary names
Geometries ==
    {[i \in 1..Len(q) |-> Feature(q[i])] :
        q \in {r \in DistinctSeqs(BoundaryNames, MaxFeatures) : NoRepeat(r)}}

\* metric tables: up to MaxRows rows, one row per state (GROUP BY state)
MetricTables ==
    {q \in DistinctSeqs([state : {PyStr(s) : s \in RowStates}, value : RowValues], MaxRows) :
        \A i, j \in 1..Len(q) : i # j => q[i].state # q[j].state}

InitFC ==
    /\ NamesIdle
    /\ INDIA_GEOJSON \in Geometries
    /\ df_plot \in MetricTables
    /\ fc = Unset
    /\ EventIdle
    /\ HomeIdle
    /\ CsIdle

CallBuildFeatureCollection ==
    /\ fc = Unset
    /\ \E built \in {build_feature_collection(df_plot, INDIA_GEOJSON)} :
          /\ fc' = PyList(built.features)
          /\ INDIA_GEOJSON' = built.INDIA_GEOJSON
    /\ UNCHANGED <<nmvars, df_plot, evvars, storevars, cachevars, homevars, csvars>>

\* the map is to be drawn again for other metric rows: here the table
\* without its first row
NextMetricRows ==
    /\ fc # Unset
    /\ df_plot # <<>>
    /\ df_plot' = Tail(df_plot)
    /\ fc' = Unset
    /\ UNCHANGED <<nmvars, INDIA_GEOJSON, evvars, storevars, cachevars, homevars, csvars>>

NextFC == CallBuildFeatureCollection \/ NextMetricRows

SpecFC == InitFC /\ [][NextFC]_vars

----------------------------------------------------------------------------
(* Specification of the name round trip: a name drawn from NameInputs is   *)
(* sent through to_st_nm and the result through stnm_to_db.                *)

\* the names of the table, names absent from it, the empty name
CoreNames ==
    {NAME_TO_ST_NM[i][1] : i \in 1..Len(NAME_TO_ST_NM)}
    \cup {NAME_TO_ST_NM[i][2] : i \in 1..Len(NAME_TO_ST_NM)}
    \cup {<<"Kerala">>, <<"Tamil", " ", "Nadu">>, <<>>}

Padding == {<<>>, <<" ">>, <<"\t", " ">>, <<"\n">>, <<"", " ">>}

NameInputs ==
    {PyStr(l \o c \o r) : l \in Padding, c \in CoreNames, r \in Padding}
    \cup {PyNone, PyInt(5)}

InitNames ==
    /\ nm_arg \in NameInputs
    /\ nm_mid = Unset
    /\ nm_out = Unset
    /\ INDIA_GEOJSON = <<>>
    /\ FcIdle
    /\ EventIdle
    /\ HomeIdle
    /\ CsIdle

CallToStNm ==
    /\ nm_mid = Unset
    /\ nm_mid' = to_st_nm(nm_arg)
    /\ UNCHANGED <<nm_arg, nm_out, INDIA_GEOJSON, fcvars, evvars, storevars, cachevars, homevars, csvars>>

CallStnmToDb ==
    /\ nm_mid # Unset
    /\ nm_out = Unset
    /\ nm_out' = stnm_to_db(nm_mid)
    /\ UNCHANGED <<nm_arg, nm_mid, INDIA_GEOJSON, fcvars, evvars, storevars, cachevars, homevars, csvars>>

\* stnm_to_db applied to the input itself, as on a click
CallStnmToDbOnInput ==
    /\ nm_mid = Unset
    /\ nm_out = Unset
    /\ nm_out' = stnm_to_db(nm_arg)
    /\ UNCHANGED <<nm_arg, nm_mid, INDIA_GEOJSON, fcvars, evvars, storevars, cachevars, homevars, csvars>>

NextNames == CallToStNm \/ CallStnmToDb \/ CallStnmToDbOnInput

SpecNames == InitNames /\ [][NextNames]_vars

----------------------------------------------------------------------------
(* Specification of selection resolution: a payload is put together from   *)
(* a properties value, the form of the selected object, the shape of the   *)
(* selection and the way the event carries it, and                         *)
(* get_selected_state_from_event is applied to it.                         *)

Absent == [t |-> "absent"]      \* the key is not in the dict

Aliases == <<"ST_NM", "state", "name">>

AliasValues ==
    {PyNone, PyStr(<<>>), PyStr(<<" ">>), PyInt(5),
     PyStr(<<"Odisha">>), PyStr(<<" ", "Kerala", "\t">>)}

\* the items of a properties dict that holds a[i] under Aliases[i], unless Absent
RECURSIVE AliasItems(_, _)
AliasItems(a, i) ==
    IF i > Len(Aliases) THEN <<>>
    ELSE (IF a[i] = Absent THEN <<>> ELSE << <<Aliases[i], a[i]>> >>) \o AliasItems(a, i + 1)

PropertiesValues ==
    {PyDict(<< <<"metric_value", PyFloat(1, 1)>> >> \o AliasItems(a, 1)) :
        a \in [1..Len(Aliases) -> AliasValues \cup {Absent}]}
    \cup {PyDict(<<>>), PyNone, PyStr(<<"Odisha">>), PyList(<<>>)}

ObjectForms == {"feature", "wrapped"}
ObjectsWithoutProperties == {"none", "empty", "flat", "wrapped_empty"}
SelectionShapes == {"list", "list_of_two", "layer", "second_layer", "layer_dict", "single"}
SelectionsWithoutObjects ==
    {"empty", "indices_only", "empty_list", "empty_layers", "objects_str", "none", "a_list"}
Carriers == {"selection_key", "attr_dict", "attribute", "bare"}

EventCases ==
    [props : PropertiesValues, obj : ObjectForms, sel : SelectionShapes, by : Carriers]
    \cup [props : {Absent}, obj : ObjectForms \cup ObjectsWithoutProperties,
          sel : SelectionShapes, by : Carriers]
    \cup [props : {Absent}, obj : {"none"}, sel : SelectionsWithoutObjects,
          by : Carriers \cup {"no_event"}]

MakeFeature(props) ==
    PyDict(<< <<"type", PyStr(<<"Feature">>)>> >>
           \o (IF props = Absent THEN <<>> ELSE << <<"properties", props>> >>))

MakeObject(form, props) ==
    CASE form = "feature" -> MakeFeature(props)
      [] form = "wrapped" -> PyDict(<< <<"object", MakeFeature(props)>> >>)
      [] form = "none" -> PyNone
      [] form = "empty" -> PyDict(<<>>)
      [] form = "flat" -> PyDict(<< <<"name", PyStr(<<"Kerala">>)>> >>)
      [] form = "wrapped_empty" -> PyDict(<< <<"object", PyDict(<<>>)>> >>)

MakeSelection(shape, o) ==
    CASE shape = "list" -> PyDict(<< <<"objects", PyList(<<o>>)>> >>)
      [] shape = "list_of_two" ->
            PyDict(<< <<"indices", PyDict(<<>>)>>,
                      <<"objects", PyList(<<o, MakeFeature(PyDict(<< <<"ST_NM", PyStr(<<"Goa">>)>> >>))>>)>> >>)
      [] shape = "layer" ->
            PyDict(<< <<"indices", PyDict(<< <<"india-states", PyList(<<PyInt(0)>>)>> >>)>>,
                      <<"objects", PyDict(<< <<"india-states", PyList(<<o>>)>> >>)>> >>)
      [] shape = "second_layer" ->
            PyDict(<< <<"objects", PyDict(<< <<"labels", PyList(<<>>)>>,
                                             <<"india-states", PyList(<<o>>)>> >>)>> >>)
      [] shape = "layer_dict" ->
            PyDict(<< <<"objects", PyDict(<< <<"india-states", o>> >>)>> >>)
      [] shape = "single" -> PyDict(<< <<"object", o>> >>)
      [] shape = "empty" -> PyDict(<<>>)
      [] shape = "indices_only" -> PyDict(<< <<"indices", PyDict(<<>>)>> >>)
      [] shape = "empty_list" -> PyDict(<< <<"objects", PyList(<<>>)>> >>)
      [] shape = "empty_layers" ->
            PyDict(<< <<"indices", PyDict(<<>>)>>, <<"objects", PyDict(<<>>)>> >>)
      [] shape = "objects_str" -> PyDict(<< <<"objects", PyStr(<<"Odisha">>)>> >>)
      [] shape = "none" -> PyNone
      [] shape = "a_list" -> PyList(<<>>)

MakeEvent(c) ==
    LET sel == MakeSelection(c.sel, MakeObject(c.obj, c.props))
    IN  CASE c.by = "selection_key" -> PyDict(<< <<"selection", sel>> >>)
          [] c.by = "attr_dict" -> PyAttrDict(<< <<"selection", sel>> >>)
          [] c.by = "attribute" -> PyObj(<< <<"selection", sel>> >>)
          [] c.by = "bare" -> sel
          [] c.by = "no_event" -> PyNone

InitEvent ==
    /\ NamesIdle
    /\ INDIA_GEOJSON = <<>>
    /\ FcIdle
    /\ ev_case \in EventCases
    /\ event = MakeEvent(ev_case)
    /\ clicked = Unset
    /\ HomeIdle
    /\ CsIdle

CallGetSelectedState ==
    /\ event # Unset
    /\ clicked = Unset
    /\ clicked' = get_selected_state_from_event(event)
    /\ UNCHANGED <<nmvars, INDIA_GEOJSON, fcvars, event, ev_case, storevars, cachevars, homevars, csvars>>

NextEvent == CallGetSelectedState

SpecEvent == InitEvent /\ [][NextEvent]_vars

----------------------------------------------------------------------------
(* Specification of Home: the store is loaded from outside, and every user *)
(* interaction runs one pass of render_home.                               *)

MaxStoreRows == 2

Views == {"Transactions", "Users"}

TxnRow(st, q, amount, count) ==
    [state |-> PyStr(st), year |-> 2022, quarter |-> q,
     transaction_amount |-> amount, transaction_count |-> count]
UserRow(st, q, users, opens) ==
    [state |-> PyStr(st), year |-> 2022, quarter |-> q,
     registered_users |-> users, app_opens |-> opens]

\* the rows the ETL may load: two states and two quarters of a year, a state
\* with two rows in a quarter, two states with the same amount
TransactionRows ==
    {TxnRow(<<"Orissa">>, 1, 1, 1), TxnRow(<<"Kerala">>, 1, 2, 1), TxnRow(<<"Kerala">>, 1, 1, 1),
     TxnRow(<<"Orissa">>, 2, 1, 1), TxnRow(<<"Kerala">>, 2, 2, 1)}

UserRowsOfStore ==
    {UserRow(<<"Kerala">>, 1, 1, 1), UserRow(<<"Orissa">>, 1, 2, 0), UserRow(<<"Kerala">>, 2, 1, 1)}

HomeGeometry == <<Feature(<<"Odisha">>), Feature(<<"Kerala">>), Feature(<<"Goa">>)>>

InitHome ==
    /\ NamesIdle
    /\ FcIdle
    /\ EventIdle
    /\ INDIA_GEOJSON = <<>>
    /\ aggregated_transaction = {}
    /\ map_user = {}
    /\ geojson_remote = HomeGeometry
    /\ years_quarters_cache = Unset
    /\ quarters_for_year_cache = <<>>
    /\ load_geojson_cache = Unset
    /\ home_clicked_state = PyNone
    /\ map_key = Unset
    /\ home = Unset
    /\ panels = <<>>
    /\ raised = FALSE
    /\ issued = {}
    /\ loaded = [at |-> "none"]
    /\ CsIdle

StoreFrame == UNCHANGED <<nmvars, INDIA_GEOJSON, fcvars, evvars, cachevars, homevars, csvars>>

\* the ETL outside the program adds a row to aggregated_transaction, while
\* the store holds fewer than max rows
LoadTransactionUpTo(max) ==
    /\ Cardinality(aggregated_transaction) + Cardinality(map_user) < max
    /\ \E r \in TransactionRows \ aggregated_transaction :
          aggregated_transaction' = aggregated_transaction \cup {r}
    /\ UNCHANGED <<map_user, geojson_remote>>
    /\ StoreFrame

LoadTransaction == LoadTransactionUpTo(MaxStoreRows)

\* the ETL outside the program adds a row to map_user
LoadUserUpTo(max) ==
    /\ Cardinality(aggregated_transaction) + Cardinality(map_user) < max
    /\ \E r \in UserRowsOfStore \ map_user : map_user' = map_user \cup {r}
    /\ UNCHANGED <<aggregated_transaction, geojson_remote>>
    /\ StoreFrame

LoadUser == LoadUserUpTo(MaxStoreRows)

Last(q) == q[Len(q)]
Elements(q) == {q[i] : i \in 1..Len(q)}

\* what the map widget returns when the user has not touched it: its kept
\* selection if the pass renders the chart under the key of the last pass,
\* the empty selection of a new widget otherwise
KeptSelection(view, y, q) ==
    IF map_key # Unset /\ map_key = MapKey(view, y, q) THEN event ELSE EmptySelection

\* the rows the ETL may add while a pass for the year y and the view runs,
\* each with the first query of the pass that finds it, and no row at all;
\* the store holds fewer than max rows when a row is added
LoadsDuringPass(y, view, max) ==
    LET txn_at  == (IF y \in DOMAIN quarters_for_year_cache THEN {} ELSE {"quarters_for_year"})
                   \cup {"states"}
                   \cup (IF view = "Transactions"
                         THEN {"df_metric", "df_for_default", "state_kpis", "india_kpis"} ELSE {})
        user_at == IF view = "Users"
                   THEN {"df_metric", "df_for_default", "state_kpis", "india_kpis"} ELSE {}
    IN  {[at |-> "none"]}
        \cup (IF Cardinality(aggregated_transaction) + Cardinality(map_user) < max
              THEN {[at |-> p, table |-> "aggregated_transaction", row |-> r] :
                       p \in txn_at,
                       r \in {x \in TransactionRows \ aggregated_transaction : x.year = y}}
                   \cup {[at |-> p, table |-> "map_user", row |-> r] :
                       p \in user_at,
                       r \in {x \in UserRowsOfStore \ map_user : x.year = y}}
              ELSE {})

\* the first pass of the session: every selectbox shows its default
RenderHomeFirst(max) ==
    /\ home = Unset
    /\ LET y == Last(years_quarters(Db).years)
       IN  \E load \in LoadsDuringPass(y, "Transactions", max) :
             LET q == Last(quarters_for_year(DbAt(load, "quarters_for_year"), y))
             IN  RenderHome(y, q, "Transactions", KeptSelection("Transactions", y, q),
                            Unset, FALSE, load)

\* the user chooses another year, quarter or view
RenderHomeFilter(max) ==
    /\ home # Unset
    /\ \E y \in Elements(years_quarters(Db).years), view \in Views :
         \E load \in LoadsDuringPass(y, view, max) :
            \E q \in Elements(quarters_for_year(DbAt(load, "quarters_for_year"), y)) :
               /\ <<y, q, view>> # <<home.y, home.q, home.view>>
               /\ RenderHome(y, q, view, KeptSelection(view, y, q), Unset, TRUE, load)

\* the user clicks a region of the map the last pass rendered (on_select="rerun")
RenderHomeClick(max) ==
    /\ home # Unset
    /\ map_key # Unset
    /\ \E i \in 1..Len(fc.l), load \in LoadsDuringPass(home.y, home.view, max) :
          RenderHome(home.y, home.q, home.view, SelectionPayload(i, fc.l[i]),
                     Unset, FALSE, load)

\* the user clicks off the regions: the selection of the map is emptied
RenderHomeDeselect(max) ==
    /\ home # Unset
    /\ map_key # Unset
    /\ event # EmptySelection
    /\ \E load \in LoadsDuringPass(home.y, home.view, max) :
          RenderHome(home.y, home.q, home.view, EmptySelection, Unset, FALSE, load)

\* the user chooses another option of the State selectbox the last pass rendered
RenderHomeState(max) ==
    /\ home # Unset
    /\ Contains(panels, "State")
    /\ \E pick \in Elements(home.states) \ {home.state},
          load \in LoadsDuringPass(home.y, home.view, max) :
          RenderHome(home.y, home.q, home.view,
                     KeptSelection(home.view, home.y, home.q), pick, FALSE, load)

\* a rerun with the widgets as they are (another widget of the page changed)
RenderHomeRerun(max) ==
    /\ home # Unset
    /\ \E load \in LoadsDuringPass(home.y, home.view, max) :
          RenderHome(home.y, home.q, home.view,
                     KeptSelection(home.view, home.y, home.q), Unset, FALSE, load)

NextHome ==
    \/ LoadTransaction
    \/ LoadUser
    \/ RenderHomeFirst(MaxStoreRows)
    \/ RenderHomeFilter(MaxStoreRows)
    \/ RenderHomeClick(MaxStoreRows)
    \/ RenderHomeDeselect(MaxStoreRows)
    \/ RenderHomeState(MaxStoreRows)
    \/ RenderHomeRerun(MaxStoreRows)

SpecHome == InitHome /\ [][NextHome]_vars

----------------------------------------------------------------------------
(* Specification of the cached lookups: Home as in SpecHome over a store   *)
(* of at most MaxCachedStoreRows rows, and the document behind             *)
(* INDIA_GEOJSON_URL may be replaced while the process runs.  The State    *)
(* selectbox, which no cached lookup depends on, is left as it is.         *)

MaxCachedStoreRows == 1

HomeGeometryRevised == <<Feature(<<"Odisha">>), Feature(<<"Kerala">>)>>

\* the document the URL serves is replaced
RemoteGeometryChanges ==
    /\ geojson_remote = HomeGeometry
    /\ geojson_remote' = HomeGeometryRevised
    /\ UNCHANGED <<aggregated_transaction, map_user>>
    /\ StoreFrame

NextCached ==
    \/ LoadTransactionUpTo(MaxCachedStoreRows)
    \/ LoadUserUpTo(MaxCachedStoreRows)
    \/ RenderHomeFirst(MaxCachedStoreRows)
    \/ RenderHomeFilter(MaxCachedStoreRows)
    \/ RenderHomeClick(MaxCachedStoreRows)
    \/ RenderHomeDeselect(MaxCachedStoreRows)
    \/ RenderHomeRerun(MaxCachedStoreRows)
    \/ RemoteGeometryChanges

SpecCached == InitHome /\ [][NextCached]_vars

----------------------------------------------------------------------------
(* Specification of Home over a store that fails: the store holds one of a *)
(* few fixed contents, and in any pass one of the queries may raise.       *)

FailingStores ==
    {[txn |-> {}, users |-> {}],
     [txn |-> {TxnRow(<<"Orissa">>, 1, 1, 1), TxnRow(<<"Kerala">>, 1, 2, 1),
               TxnRow(<<"Kerala">>, 2, 2, 1)},
      users |-> {UserRow(<<"Kerala">>, 1, 1, 1)}]}

InitFailing ==
    /\ NamesIdle
    /\ FcIdle
    /\ EventIdle
    /\ INDIA_GEOJSON = <<>>
    /\ \E store \in FailingStores :
          /\ aggregated_transaction = store.txn
          /\ map_user = store.users
    /\ geojson_remote = HomeGeometry
    /\ years_quarters_cache = Unset
    /\ quarters_for_year_cache = <<>>
    /\ load_geojson_cache = Unset
    /\ home_clicked_state = PyNone
    /\ map_key = Unset
    /\ home = Unset
    /\ panels = <<>>
    /\ raised = FALSE
    /\ issued = {}
    /\ loaded = [at |-> "none"]
    /\ CsIdle

\* what the map widget may return in a pass for view, y, q: its kept
\* selection, an emptied one, or a click on a region of the map it shows
Deliverable(view, y, q) ==
    {KeptSelection(view, y, q), EmptySelection}
    \cup (IF map_key # Unset /\ map_key = MapKey(view, y, q)
          THEN {SelectionPayload(i, fc.l[i]) : i \in 1..Len(fc.l)} ELSE {})

\* what the user may have done to start a pass for view, y, q: something
\* to the map or to another widget (the State selectbox is as it was), or
\* the choice of another option of the State selectbox (the map is as it was)
Interactions(view, y, q) ==
    {[delivered |-> d, pick |-> Unset] : d \in Deliverable(view, y, q)}
    \cup (IF home # Unset /\ Contains(panels, "State")
             /\ <<y, q, view>> = <<home.y, home.q, home.view>>
          THEN {[delivered |-> KeptSelection(view, y, q), pick |-> p] :
                   p \in Elements(home.states) \ {home.state}}
          ELSE {})

\* a pass, whatever the interaction that starts it, that raises: at the
\* request of load_geojson() before anything is emitted, at years_quarters()
\* before any widget has a value, at quarters_for_year(y) before Quarter and
\* View have one, or at one of the later queries
RenderHomeFailing ==
    \/ RenderHomePass(0, 0, "Transactions", EmptySelection, Unset, FALSE,
                      [at |-> "none"], "load_geojson")
    \/ RenderHomePass(0, 0, "Transactions", EmptySelection, Unset, FALSE,
                      [at |-> "none"], "years_quarters")
    \/ \E y \in Elements(years_quarters(Db).years) :
          RenderHomePass(y, 0, "Transactions", EmptySelection, Unset, FALSE,
                         [at |-> "none"], "quarters_for_year")
    \/ \E y \in Elements(years_quarters(Db).years), view \in Views :
          \E q \in Elements(quarters_for_year(Db, y)) :
             \E act \in Interactions(view, y, q) :
                \E i \in 4..Len(FailurePoints) :
                   RenderHomePass(y, q, view, act.delivered, act.pick,
                                  home # Unset /\ <<y, q, view>> # <<home.y, home.q, home.view>>,
                                  [at |-> "none"], FailurePoints[i])

\* the store of this specification is not loaded while the program runs
NextFailing ==
    \/ RenderHomeFirst(0)
    \/ RenderHomeFilter(0)
    \/ RenderHomeClick(0)
    \/ RenderHomeDeselect(0)
    \/ RenderHomeState(0)
    \/ RenderHomeRerun(0)
    \/ RenderHomeFailing

SpecFailing == InitFailing /\ [][NextFailing]_vars

----------------------------------------------------------------------------
(* Specification of the sorted queries: the tables top_map and top_user    *)
(* hold a number of entities of one state and period, some of them with    *)
(* NULL measures, top_user also the first pincode in a second state, and   *)
(* top_geo and the pincode query of render_cs5 are run.                    *)

MaxEntities == 26

SortState == PyStr(<<"Kerala">>)
SortPeriod == [y |-> 2022, q |-> 1]

\* the measure of the i-th entity; the first entity has a second row
MeasureOf(i, nulls) == IF i \in nulls THEN PyNone ELSE PyInt(2 * i)

TopMapRows(n, nulls) ==
    {[state |-> SortState, year |-> SortPeriod.y, quarter |-> SortPeriod.q,
      entity_type |-> "District", entity_name |-> i,
      count |-> PyInt(1), amount |-> MeasureOf(i, nulls)] : i \in 1..n}
    \cup {[state |-> SortState, year |-> SortPeriod.y, quarter |-> SortPeriod.q,
           entity_type |-> et, entity_name |-> 1,
           count |-> PyInt(2), amount |-> PyInt(1)] : et \in {"District", "Pincode"}}

TopUserRows(n, nulls) ==
    {[state |-> SortState, year |-> SortPeriod.y, quarter |-> SortPeriod.q,
      entity_type |-> "Pincode", entity_name |-> i,
      registered_users |-> MeasureOf(i, nulls)] : i \in 1..n}
    \cup {[state |-> SortState, year |-> SortPeriod.y, quarter |-> q,
           entity_type |-> "Pincode", entity_name |-> 1,
           registered_users |-> PyInt(1)] : q \in {SortPeriod.q, SortPeriod.q + 1}}
    \cup {[state |-> PyStr(<<"Goa">>), year |-> SortPeriod.y, quarter |-> SortPeriod.q,
           entity_type |-> "Pincode", entity_name |-> 1,
           registered_users |-> PyInt(3)]}

\* no entity, one entity or two entities have a NULL measure, or three
\* entities next to each other
NullSets(n) == {{}} \cup {{i, j} : i, j \in 1..n} \cup {{i, i + 1, i + 2} : i \in 1..(n - 2)}

InitSorted ==
    /\ NamesIdle
    /\ INDIA_GEOJSON = <<>>
    /\ FcIdle
    /\ EventIdle
    /\ HomeIdle
    /\ \E n \in 0..MaxEntities :
         \E nulls \in NullSets(n) :
            /\ top_map = TopMapRows(n, nulls)
            /\ top_user = TopUserRows(n, nulls)
    /\ top_geo_df = Unset
    /\ pz = Unset
    /\ aggregated_user = {}
    /\ cs2 = Unset

SortedFrame ==
    UNCHANGED <<nmvars, INDIA_GEOJSON, fcvars, evvars, storevars, cachevars, homevars,
                top_map, top_user, aggregated_user, cs2>>

CallTopGeo ==
    /\ top_geo_df = Unset
    /\ top_geo_df' \in top_geo(SortState, SortPeriod.y, SortPeriod.q, "District")
    /\ UNCHANGED pz
    /\ SortedFrame

CallTopPincodes ==
    /\ top_geo_df # Unset
    /\ pz = Unset
    /\ pz' \in top_pincodes_by_users(SortPeriod.y, SortPeriod.q)
    /\ UNCHANGED top_geo_df
    /\ SortedFrame

NextSorted == CallTopGeo \/ CallTopPincodes

SpecSorted == InitSorted /\ [][NextSorted]_vars

----------------------------------------------------------------------------
(* Specification of render_cs2: the ETL outside the program loads rows     *)
(* into aggregated_user and map_user, between the calls of render_cs2 and  *)
(* while a call runs, and render_cs2 is called with a year and a quarter.  *)

MaxCs2Rows == 2

AggUserRow(st, y, q, brand) ==
    [state |-> PyStr(st), year |-> y, quarter |-> q, brand |-> brand, count |-> 1]

\* the rows the ETL may load into aggregated_user: a brand and the empty
\* string that tie in a state, a brand that is NULL, and a brand of an
\* earlier period
AggregatedUserRows ==
    {AggUserRow(<<"Kerala">>, 2023, 1, PyStr(<<"Samsung">>)),
     AggUserRow(<<"Kerala">>, 2023, 1, PyStr(<<>>)),
     AggUserRow(<<"Orissa">>, 2023, 1, PyNone),
     AggUserRow(<<"Kerala">>, 2022, 2, PyStr(<<"Vivo">>))}

Cs2MapUserRow(st, y, q) ==
    [state |-> PyStr(st), year |-> y, quarter |-> q, registered_users |-> 1, app_opens |-> 2]

\* the rows the ETL may load into map_user, one of a later period that
\* aggregated_user does not have
Cs2MapUserRows ==
    {Cs2MapUserRow(<<"Kerala">>, 2023, 1), Cs2MapUserRow(<<"Orissa">>, 2022, 2),
     Cs2MapUserRow(<<"Orissa">>, 2023, 2)}

\* what the Year and Quarter selectboxes of the Case Studies tab may hold
Cs2Arguments == {<<2021, 4>>, <<2022, 2>>}

InitCs2 ==
    /\ NamesIdle
    /\ INDIA_GEOJSON = <<>>
    /\ FcIdle
    /\ EventIdle
    /\ aggregated_transaction = {}
    /\ map_user = {}
    /\ years_quarters_cache = Unset
    /\ quarters_for_year_cache = <<>>
    /\ home_clicked_state = Unset
    /\ map_key = Unset
    /\ home = Unset
    /\ geojson_remote = <<>>
    /\ load_geojson_cache = Unset
    /\ panels = <<>>
    /\ raised = FALSE
    /\ issued = {}
    /\ loaded = [at |-> "none"]
    /\ top_map = {}
    /\ top_user = {}
    /\ top_geo_df = Unset
    /\ pz = Unset
    /\ aggregated_user = {}
    /\ cs2 = Unset

Cs2Frame ==
    UNCHANGED <<nmvars, INDIA_GEOJSON, fcvars, evvars, aggregated_transaction, geojson_remote,
                cachevars, home_clicked_state, map_key, home, panels, raised, issued,
                top_map, top_user, top_geo_df, pz>>

\* the ETL adds a row to aggregated_user between two calls
LoadAggregatedUser ==
    /\ Cardinality(aggregated_user) < MaxCs2Rows
    /\ \E r \in AggregatedUserRows \ aggregated_user :
          aggregated_user' = aggregated_user \cup {r}
    /\ UNCHANGED <<map_user, loaded, cs2>>
    /\ Cs2Frame

\* the ETL adds a row to map_user between two calls
LoadMapUser ==
    /\ Cardinality(map_user) < MaxCs2Rows
    /\ \E r \in Cs2MapUserRows \ map_user : map_user' = map_user \cup {r}
    /\ UNCHANGED <<aggregated_user, loaded, cs2>>
    /\ Cs2Frame

\* the rows the ETL may add while a call runs, each with the first query of
\* the call that finds it (a query of the table the row goes to), and no row
\* at all
Cs2LoadsDuringCall ==
    {[at |-> "none"]}
    \cup (IF Cardinality(aggregated_user) < MaxCs2Rows
          THEN {[at |-> p, table |-> "aggregated_user", row |-> r] :
                   p \in {"latest_common_period", "brands", "tb", "av_brands", "ts", "bse"},
                   r \in AggregatedUserRows \ aggregated_user}
          ELSE {})
    \cup (IF Cardinality(map_user) < MaxCs2Rows
          THEN {[at |-> p, table |-> "map_user", row |-> r] :
                   p \in {"latest_common_period", "eng", "bse"},
                   r \in Cs2MapUserRows \ map_user}
          ELSE {})

\* the Case Studies tab shows "Device Dominance & Engagement"
CallRenderCs2 ==
    /\ \E a \in Cs2Arguments : \E load \in Cs2LoadsDuringCall :
          /\ cs2' \in render_cs2(a[1], a[2], load)
          /\ aggregated_user' = Cs2DbAt(load, "bse").aggregated_user
          /\ map_user' = Cs2DbAt(load, "bse").map_user
          /\ loaded' = load
    /\ Cs2Frame

NextCs2 == LoadAggregatedUser \/ LoadMapUser \/ CallRenderCs2

SpecCs2 == InitCs2 /\ [][NextCs2]_vars

----------------------------------------------------------------------------
(* Claims about build_feature_collection, under SpecFC *)

Height(f) == Prop(f, "height")
MetricValue(f) == Prop(f, "metric_value")
Built == fc # Unset
Covered(f) == \E i \in 1..Len(df_plot) : to_st_nm(df_plot[i].state) = Prop(f, "ST_NM")
RowValue(i) == float(PyOr(df_plot[i].value, PyInt(0)))

\* C1: every feature build_feature_collection produces, with or without a
\* metric row for its region, has a height within
\* [heightMin, heightMin + heightSpan] = [200000, 900000].
C1_HeightsWithinRange ==
    Built => \A i \in 1..Len(fc.l) :
                /\ FLeq(PyFloat(heightMin, 1), Height(fc.l[i]))
                /\ FLeq(Height(fc.l[i]), PyFloat(heightMin + heightSpan, 1))

\* C2: if all values of the metric rows are equal (a single row included),
\* every feature of the produced collection has height exactly heightMin.
C2_EqualValuesGiveHeightMin ==
    (Built /\ \A i, j \in 1..Len(df_plot) : RowValue(i) = RowValue(j))
        => \A i \in 1..Len(fc.l) : Height(fc.l[i]) = PyFloat(heightMin, 1)

\* C9: build_feature_collection emits exactly one feature per feature of the
\* boundary geometry, in the same order, whatever the metric rows cover; a
\* feature whose boundary name matches no metric row gets metric_value 0.
C9_OneFeaturePerBoundaryFeature ==
    Built =>
        /\ Len(fc.l) = Len(INDIA_GEOJSON)
        /\ \A i \in 1..Len(INDIA_GEOJSON) :
              /\ i \in DOMAIN fc.l
              /\ Prop(fc.l[i], "ST_NM") = Prop(INDIA_GEOJSON[i], "ST_NM")
              /\ ItemGet(fc.l[i].items, "type", PyNone)
                    = ItemGet(INDIA_GEOJSON[i].items, "type", PyNone)
              /\ ~Covered(INDIA_GEOJSON[i]) => MetricValue(fc.l[i]) = PyFloat(0, 1)

\* three regions, the metric rows cover one of them with a nonzero value:
\* three features, two of them with metric_value 0
C9_Witness ==
    /\ Built
    /\ Len(INDIA_GEOJSON) = 3
    /\ Cardinality({i \in 1..3 : Covered(INDIA_GEOJSON[i])}) = 1
    /\ Len(fc.l) = 3
    /\ Cardinality({i \in 1..3 : MetricValue(fc.l[i]) = PyFloat(0, 1)}) = 2

FLess(a, b) == FLeq(a, b) /\ a # b

\* C15: within one result set the height is an order-preserving function of
\* metric_value: of two produced features, the one with the larger
\* metric_value never has the smaller height, and equal metric_values have
\* equal heights.
C15_HeightOrderPreserving ==
    Built => \A i, j \in 1..Len(fc.l) :
                /\ FLess(MetricValue(fc.l[i]), MetricValue(fc.l[j]))
                      => FLeq(Height(fc.l[i]), Height(fc.l[j]))
                /\ MetricValue(fc.l[i]) = MetricValue(fc.l[j])
                      => Height(fc.l[i]) = Height(fc.l[j])

\* three features with three different metric values, one of them the 0 of
\* a region without a row, got three heights in the same order
C15_Witness ==
    /\ Built
    /\ \E i, j, k \in 1..Len(fc.l) :
          /\ ~Covered(INDIA_GEOJSON[i])
          /\ FLess(MetricValue(fc.l[i]), MetricValue(fc.l[j]))
          /\ FLess(MetricValue(fc.l[j]), MetricValue(fc.l[k]))
          /\ FLess(Height(fc.l[i]), Height(fc.l[j]))
          /\ FLess(Height(fc.l[j]), Height(fc.l[k]))

----------------------------------------------------------------------------
(* Claims about the name round trip, under SpecNames *)

RoundTripDone == nm_mid # Unset /\ nm_out # Unset

\* x has a mapping collision when its trimmed text is the boundary name the
\* table gives to a different canonical name
MappingCollision(x) ==
    \E i \in 1..Len(NAME_TO_ST_NM) :
        /\ NAME_TO_ST_NM[i][2] = strip(x.s)
        /\ NAME_TO_ST_NM[i][1] # strip(x.s)

\* C3 as stated: for every canonical name x that has no mapping collision,
\* stnm_to_db(to_st_nm(x)) == x, mapped or absent from the table.
C3_RoundTripIsIdentity ==
    (RoundTripDone /\ isinstance_str(nm_arg) /\ ~MappingCollision(nm_arg))
        => nm_out = nm_arg

\* C3 as amended: for every name x that has no mapping collision,
\* stnm_to_db(to_st_nm(x)) is x with its surrounding whitespace trimmed, so
\* it is x itself exactly when x has no surrounding whitespace.
C3_RoundTripIsTrimmedName ==
    (RoundTripDone /\ isinstance_str(nm_arg) /\ ~MappingCollision(nm_arg))
        => /\ nm_out = PyStr(strip(nm_arg.s))
           /\ (nm_out = nm_arg) <=> (strip(nm_arg.s) = nm_arg.s)

\* a mapped canonical name went to its boundary name and came back
C3_Witness ==
    /\ nm_arg = PyStr(<<"Orissa">>)
    /\ nm_mid = PyStr(<<"Odisha">>)
    /\ nm_out = PyStr(<<"Orissa">>)

NonBlankString(v) == v.t = "str" /\ \E i \in 1..Len(v.s) : ~IsSpace(v.s[i])

TrimmedText(v) ==
    LET first == CHOOSE i \in 1..Len(v.s) : ~IsSpace(v.s[i]) /\ \A j \in 1..(i - 1) : IsSpace(v.s[j])
        last  == CHOOSE i \in 1..Len(v.s) : ~IsSpace(v.s[i]) /\ \A j \in (i + 1)..Len(v.s) : IsSpace(v.s[j])
    IN  [k \in 1..(last - first + 1) |-> v.s[first + k - 1]]

\* the text of a string without its surrounding whitespace
TrimOf(v) == IF NonBlankString(v) THEN TrimmedText(v) ELSE <<>>

\* the entry the table NAME_TO_ST_NM, read from column from to column to,
\* has for a text, or the text itself
TableEntryOr(from, to, text) ==
    IF \E i \in 1..Len(NAME_TO_ST_NM) : NAME_TO_ST_NM[i][from] = text
    THEN NAME_TO_ST_NM[CHOOSE i \in 1..Len(NAME_TO_ST_NM) : NAME_TO_ST_NM[i][from] = text][to]
    ELSE text

\* what the contract gives for an argument x
NameContract(from, to, x) ==
    IF x.t = "str" THEN PyStr(TableEntryOr(from, to, TrimOf(x))) ELSE x

\* C13: to_st_nm and stnm_to_db are total over strings: each trims the
\* surrounding whitespace, returns the table entry of the trimmed name when
\* there is one and the trimmed input otherwise; a non-string input is
\* returned unchanged.  Neither raises nor changes any state.
C13_NameFunctionsTotalAndPure ==
    [][/\ nm_mid' # nm_mid =>
            (nm_mid' # Raised /\ nm_mid' = NameContract(1, 2, nm_arg))
       /\ nm_out' # nm_out =>
            /\ nm_out' # Raised
            /\ nm_out' = NameContract(2, 1, IF nm_mid = Unset THEN nm_arg ELSE nm_mid)
       /\ UNCHANGED <<nm_arg, INDIA_GEOJSON, fcvars, evvars, storevars, cachevars, homevars, csvars>>]_vars

\* stnm_to_db took a padded boundary name to its canonical name
C13_Witness ==
    /\ nm_arg = PyStr(<<" ", "Delhi", "\t", " ">>)
    /\ nm_mid = Unset
    /\ nm_out = PyStr(<<"Nct", " ", "Of", " ", "Delhi">>)

----------------------------------------------------------------------------
(* Claims about get_selected_state_from_event, under SpecEvent *)

Resolved == clicked # Unset

EmptyEvent == event = PyDict(<<>>)
NoSelectionKey == isinstance_dict(event) /\ ~HasKey(event.items, "selection")
NoObjectsOfItsOwn == ~HasKey(event.items, "objects") /\ ~HasKey(event.items, "object")
\* a selected object is there, and it has no "properties"
ObjectWithoutProperties ==
    /\ ev_case.props = Absent
    /\ ev_case.obj \in {"feature", "wrapped", "empty", "flat", "wrapped_empty"}
    /\ ev_case.sel \in SelectionShapes
\* a selected object is there, and its properties hold none of the aliases
PropertiesWithoutAlias ==
    /\ ev_case.sel \in SelectionShapes
    /\ isinstance_dict(ev_case.props)
    /\ \A i \in 1..Len(Aliases) : ~HasKey(ev_case.props.items, Aliases[i])

\* C4 as stated: get_selected_state_from_event returns None for an empty
\* event, for an event that has no "selection" key, for a selection whose
\* nested object has no "properties", and for properties that hold none of
\* the aliases ST_NM, state, name.
C4_NoneForEachMissingPart ==
    (Resolved /\ (EmptyEvent \/ NoSelectionKey \/ ObjectWithoutProperties
                    \/ PropertiesWithoutAlias))
        => clicked = PyNone

\* C4 as amended: an event that has no "selection" key is read as the
\* selection itself, so it gives None when it has no "objects" and no
\* "object" of its own; the other three cases give None as stated.
C4_NoneForMissingPartOrBareEvent ==
    (Resolved /\ (EmptyEvent \/ (NoSelectionKey /\ NoObjectsOfItsOwn)
                    \/ ObjectWithoutProperties \/ PropertiesWithoutAlias))
        => clicked = PyNone

\* a selected object that names itself but has no "properties" resolved to None
C4_Witness ==
    /\ clicked = PyNone
    /\ event = PyDict(<< <<"selection",
                PyDict(<< <<"objects", PyList(<<PyDict(<< <<"name", PyStr(<<"Kerala">>)>> >>)>>)>> >>)>> >>)

\* the canonical name of a boundary name, read off NAME_TO_ST_NM
CanonicalOf(text) ==
    IF \E i \in 1..Len(NAME_TO_ST_NM) : NAME_TO_ST_NM[i][2] = text
    THEN NAME_TO_ST_NM[CHOOSE i \in 1..Len(NAME_TO_ST_NM) : NAME_TO_ST_NM[i][2] = text][1]
    ELSE text

\* the region names an object carries: the non-blank strings its properties
\* hold under the aliases ST_NM, state, name
CarriedNames ==
    IF isinstance_dict(ev_case.props)
    THEN {ItemGet(ev_case.props.items, Aliases[i], Absent) :
            i \in {j \in 1..Len(Aliases) :
                      /\ HasKey(ev_case.props.items, Aliases[j])
                      /\ NonBlankString(ItemGet(ev_case.props.items, Aliases[j], Absent))}}
    ELSE {}

\* C5: whenever the first selected object - in a list under "objects", in a
\* layer-keyed mapping under "objects", or as a single "object" - carries a
\* non-blank string region name, get_selected_state_from_event returns the
\* canonical form of a trimmed name it carries (ST_NM "Odisha" gives
\* "Orissa"), whatever the shape the object came in.
C5_NamedObjectResolvesToCanonical ==
    (Resolved /\ ev_case.sel \in SelectionShapes /\ ev_case.obj \in ObjectForms
        /\ CarriedNames # {})
        => /\ \E name \in CarriedNames : clicked = PyStr(CanonicalOf(TrimmedText(name)))
           /\ CarriedNames = {PyStr(<<"Odisha">>)} => clicked = PyStr(<<"Orissa">>)

\* the value under the first alias, from the i-th on, that holds a usable
\* name: a string that is not blank
RECURSIVE FirstUsableFrom(_, _)
FirstUsableFrom(props, i) ==
    IF i > Len(Aliases) THEN Absent
    ELSE IF HasKey(props.items, Aliases[i])
            /\ NonBlankString(ItemGet(props.items, Aliases[i], Absent))
    THEN ItemGet(props.items, Aliases[i], Absent)
    ELSE FirstUsableFrom(props, i + 1)

FirstUsableName ==
    IF isinstance_dict(ev_case.props) THEN FirstUsableFrom(ev_case.props, 1) ELSE Absent

\* C11: the region name is accepted under any of the aliases ST_NM, state,
\* name in that priority order: the usable name under the highest-priority
\* alias that holds one is returned (in canonical form), also when a
\* higher-priority alias is absent, empty, blank or not a string.
C11_FirstUsableAliasAccepted ==
    (Resolved /\ ev_case.sel \in SelectionShapes /\ ev_case.obj \in ObjectForms
        /\ FirstUsableName # Absent)
        => clicked = PyStr(CanonicalOf(TrimmedText(FirstUsableName)))

\* a value that is None, a string or an exception is the only outcome
\* the call can have; the first two are returns
ReturnedNoneOrString == clicked = PyNone \/ isinstance_str(clicked)

\* C12: get_selected_state_from_event is total: for every event value -
\* non-dict events, selections of the wrong type, empty or non-list objects,
\* non-dict object entries, non-dict properties, non-string names - it
\* returns None or a string and never raises.
C12_ReturnsNoneOrStringNeverRaises ==
    Resolved => (clicked # Raised /\ ReturnedNoneOrString)

\* an "objects" list whose first entry is None, not a dict, resolved to None
C12_Witness ==
    /\ clicked = PyNone
    /\ event = PyDict(<< <<"selection", PyDict(<< <<"objects", PyList(<<PyNone>>)>> >>)>> >>)

----------------------------------------------------------------------------
(* Claims about the sorted queries, under SpecSorted *)

IsNull(v) == v = PyNone

\* the rows of q descend by col, the rows with a NULL col last
DescendingNullsLast(q, col) ==
    \A i, j \in 1..Len(q) :
        i < j => /\ ~(IsNull(q[i][col]) /\ ~IsNull(q[j][col]))
                 /\ (~IsNull(q[i][col]) /\ ~IsNull(q[j][col])) => q[i][col].n >= q[j][col].n

\* q holds the n largest non-NULL aggregates of the groups: no group left
\* out has a value where q has a NULL or a smaller value
LargestOf(q, groups, col, n) ==
    /\ Len(q) = (IF Cardinality(groups) < n THEN Cardinality(groups) ELSE n)
    /\ \A i \in 1..Len(q) : q[i] \in groups
    /\ \A g \in groups :
          (~IsNull(g[col]) /\ \A i \in 1..Len(q) : q[i] # g)
            => \A i \in 1..Len(q) : ~IsNull(q[i][col]) /\ q[i][col].n >= g[col].n

\* C14: every query that returns a sorted table orders its rows descending
\* by the amount/metric column with NULL aggregates last, so that a query
\* with a row limit returns the N largest non-NULL aggregates.
C14_SortedDescendingNullsLast ==
    /\ top_geo_df # Unset =>
          /\ DescendingNullsLast(top_geo_df.rows, "amount")
          /\ LargestOf(top_geo_df.rows, TopGeoGroups(SortState, SortPeriod.y, SortPeriod.q, "District"),
                       "amount", topGeoLimit)
    /\ pz # Unset =>
          /\ DescendingNullsLast(pz.rows, "users")
          /\ LargestOf(pz.rows, TopPincodeGroups(SortPeriod.y, SortPeriod.q), "users", topPincodesLimit)

----------------------------------------------------------------------------
(* Claims about the Home render pass, under SpecHome.  A step that leaves   *)
(* the store alone, or that adds the row it puts into loaded, is a render   *)
(* pass; what a claim says of a pass is said of the state the pass ends in. *)

RenderStep == home' # Unset /\ ~raised' /\ (UNCHANGED storevars \/ loaded' # loaded)

\* the store as the query p of the last pass found it, in the state the pass
\* ended in
SeenBy(p) ==
    IF loaded.at = "none" \/ PointRank(loaded.at) <= PointRank(p) THEN Db
    ELSE IF loaded.table = "aggregated_transaction"
    THEN [Db EXCEPT !.aggregated_transaction = @ \ {loaded.row}]
    ELSE [Db EXCEPT !.map_user = @ \ {loaded.row}]

PeriodRows(table, h) == {r \in table : r.year = h.y /\ r.quarter = h.q}

\* the valid region list of the pass: the states of aggregated_transaction
\* for its period, in lexical order
ValidRegions(h, txn) == SortedNames({r.state : r \in PeriodRows(txn, h)})

\* the regions with the greatest metric for the period and view of the pass
HighestMetricRegions(h, txn, users) ==
    LET rows  == IF h.view = "Transactions" THEN PeriodRows(txn, h) ELSE PeriodRows(users, h)
        col   == IF h.view = "Transactions" THEN "transaction_amount" ELSE "registered_users"
        total(st) == SumOf({r \in rows : r.state = st}, col)
        sts   == {r.state : r \in rows}
    IN  {st \in sts : \A other \in sts : total(other) <= total(st)}

FirstOrNone(q) == IF q = <<>> THEN PyNone ELSE q[1]

ActiveByPriority(h, pref, listed, ranked) ==
    LET valid == ValidRegions(h, listed.aggregated_transaction)
        top   == HighestMetricRegions(h, ranked.aggregated_transaction, ranked.map_user)
    IN  IF Contains(valid, pref) THEN h.state = pref
        ELSE IF top # {} THEN h.state \in top
        ELSE h.state = FirstOrNone(valid)

\* C6: in every Home render pass the active region of the State dropdown is
\* the last clicked region if it is in the valid region list; otherwise the
\* highest-metric region for the selected period and view; otherwise, if
\* there is no highest-metric region, the first region of the valid list.
\* The list and the metric are those the queries of the pass returned; a
\* pass in which the dropdown holds a choice of the user is left aside.
C6_ActiveRegionByPriority ==
    [][(RenderStep /\ ~home'.chosen) =>
        ActiveByPriority(home', home_clicked_state',
                         SeenBy("states")', SeenBy("df_for_default")')]_vars

\* C7: home_clicked_state is written only when a map click resolves to a
\* name, and then holds that name; no other pass - without a click, after a
\* filter change, without metric data - changes or clears it.
C7_ClickedStateKeptUntilNextClick ==
    [][/\ home_clicked_state' # home_clicked_state
            => (NonBlankString(clicked') /\ home_clicked_state' = clicked')
       /\ (RenderStep /\ NonBlankString(clicked')) => home_clicked_state' = clicked'
       /\ home_clicked_state # PyNone => home_clicked_state' # PyNone]_vars

\* a region was clicked, then the filter was changed to one without metric
\* data: the pass drew no map and the clicked name is still there
C7_Witness ==
    /\ home # Unset
    /\ home.filter_changed
    /\ home.no_data
    /\ clicked = Unset
    /\ home_clicked_state = PyStr(<<"Orissa">>)

\* the region the pass would make active had no region been clicked
ActiveWithoutClick(h) ==
    IF Contains(h.states, h.default_state) THEN h.default_state ELSE FirstOrNone(h.states)

\* C8 as stated: after the choice of a different year, quarter or view the
\* clicked region made under the previous filter combination does not
\* determine the active region of the new pass.
C8_FilterChangeDropsClickedRegion ==
    (home # Unset /\ home.filter_changed /\ ~home.chosen)
        => home.state = ActiveWithoutClick(home)

\* C8 as amended: after the choice of a different year, quarter or view the
\* map is a new widget, so the selection made under the previous filter is
\* not delivered and the pass resolves no click; home_clicked_state is kept,
\* and it is the active region of the new pass when it is in the new valid
\* list (the default is, otherwise), unless the dropdown holds a choice of
\* the user.
C8_FilterChangeKeepsClickedRegion ==
    [][(RenderStep /\ home'.filter_changed) =>
        /\ event' \in {Unset, EmptySelection}
        /\ clicked' \in {Unset, PyNone}
        /\ home_clicked_state' = home_clicked_state
        /\ home'.states = ValidRegions(home', SeenBy("states")'.aggregated_transaction)
        /\ ~home'.chosen =>
              home'.state = IF Contains(home'.states, home_clicked_state)
                            THEN home_clicked_state
                            ELSE ActiveWithoutClick(home')]_vars

\* after a filter change the map has no selection, and the region clicked
\* before is the active one although the default is another
C8_Witness ==
    /\ home # Unset
    /\ home.filter_changed
    /\ event = EmptySelection
    /\ home_clicked_state # PyNone
    /\ ~home.chosen
    /\ home.state = home_clicked_state
    /\ home.state # ActiveWithoutClick(home)

ZeroTxnKpis == <<PyFloat(0, 1), PyInt(0)>>
ZeroUserKpis == <<PyInt(0), PyInt(0)>>

KpisZeroWithoutRows(h, txn, users) ==
    LET trows == PeriodRows(txn, h)
        urows == PeriodRows(users, h)
    IN  /\ h.view = "Transactions" =>
            /\ trows = {} => (h.india_kpis = ZeroTxnKpis /\ h.atv = PyInt(0))
            /\ {r \in trows : r.state = h.state} = {} => h.state_kpis = ZeroTxnKpis
        /\ h.view = "Users" =>
            /\ urows = {} => h.india_kpis = ZeroUserKpis
            /\ {r \in urows : r.state = h.state} = {} => h.state_kpis = ZeroUserKpis

\* C10: when no store row matches the period (and state), india_txn_kpis,
\* india_user_kpis, state_txn_kpis and state_user_kpis return exactly 0 for
\* every metric - no error, no None - and the average transaction value of
\* Home is 0.
C10_KpisZeroWithoutRows ==
    [][RenderStep => KpisZeroWithoutRows(home', aggregated_transaction', map_user')]_vars

\* a Transactions pass over a period without rows showed 0 everywhere
C10_Witness ==
    /\ home # Unset
    /\ home.view = "Transactions"
    /\ PeriodRows(aggregated_transaction, home) = {}
    /\ home.india_kpis = ZeroTxnKpis
    /\ home.state_kpis = ZeroTxnKpis
    /\ home.atv = PyInt(0)

----------------------------------------------------------------------------
(* Claims about a pass in which a query fails, under SpecFailing *)

\* the elements of Home that show what the store returned
DataPanels == {"Year", "Quarter", "map", "no_data_info", "State", "state_kpis", "india_kpis"}

\* C16: if a store query fails during a render pass, the failure propagates
\* uncaught and the whole pass aborts rather than rendering partial panels:
\* no panel of that pass is emitted.
C16_FailedPassEmitsNoPanel ==
    raised => \A i \in 1..Len(panels) : panels[i] \notin DataPanels

----------------------------------------------------------------------------
(* Claims about the cached lookups, under SpecCached *)

\* the cached lookups a pass has to send out: those without an entry
FirstUses(h) ==
    (IF load_geojson_cache = Unset THEN {"load_geojson"} ELSE {})
    \cup (IF years_quarters_cache = Unset THEN {"years_quarters"} ELSE {})
    \cup (IF h.y \notin DOMAIN quarters_for_year_cache THEN {"quarters_for_year"} ELSE {})

\* C17: the time-period catalog and the boundary geometry are each computed
\* once and reused for the life of the process: the catalog query (for a
\* year, in the case of quarters_for_year) and the geometry fetch go out
\* only on first use, an entry once made never changes, and every later
\* pass works with the first result, whatever the store and the remote
\* document have become.
C17_CachedLookupsComputedOnce ==
    [][/\ years_quarters_cache # Unset => years_quarters_cache' = years_quarters_cache
       /\ \A y \in DOMAIN quarters_for_year_cache :
              /\ y \in DOMAIN quarters_for_year_cache'
              /\ quarters_for_year_cache'[y] = quarters_for_year_cache[y]
       /\ load_geojson_cache # Unset => load_geojson_cache' = load_geojson_cache
       /\ RenderStep =>
              /\ issued' = FirstUses(home')
              /\ INDIA_GEOJSON' = load_geojson_cache'.l
              /\ Contains(years_quarters_cache'.years, home'.y)
              /\ Contains(quarters_for_year_cache'[home'.y], home'.q)]_vars

\* the catalog was computed over the empty store and the geometry fetched
\* from the first document; the store has rows now and the document is
\* another, and the last pass sent nothing out and worked with the first
\* results
C17_Witness ==
    /\ home # Unset
    /\ issued = {}
    /\ aggregated_transaction # {}
    /\ home.y = 2021
    /\ years_quarters_cache = [years |-> <<2021>>, quarters |-> <<1, 2, 3, 4>>]
    /\ geojson_remote = HomeGeometryRevised
    /\ INDIA_GEOJSON = HomeGeometry

----------------------------------------------------------------------------
(* Claims about render_cs2, under SpecCs2.  A step that leaves the user    *)
(* tables alone, or that adds the row it puts into loaded, is a call.      *)

Cs2CallStep ==
    cs2' # Unset /\ (UNCHANGED <<aggregated_user, map_user>> \/ loaded' # loaded)

\* the user tables as the query p of the last call found them
Cs2SeenBy(p) ==
    IF loaded.at = "none" \/ Cs2Rank(loaded.at) <= Cs2Rank(p) THEN Cs2Db
    ELSE IF loaded.table = "aggregated_user"
    THEN [Cs2Db EXCEPT !.aggregated_user = @ \ {loaded.row}]
    ELSE [Cs2Db EXCEPT !.map_user = @ \ {loaded.row}]

CommonPeriods(db) == PeriodsOf(db.aggregated_user) \cap PeriodsOf(db.map_user)

\* the common period with the greatest year and, in that year, the greatest
\* quarter
LatestCommon(db) ==
    CHOOSE p \in CommonPeriods(db) :
        /\ \A o \in CommonPeriods(db) : o[1] <= p[1]
        /\ \A o \in CommonPeriods(db) : o[1] = p[1] => o[2] <= p[2]

Cs2Has(r, element) == \E i \in 1..Len(r.elements) : r.elements[i] = element

\* the analyses of r are those of the period p: each frame is what its
\* query gives for p on the tables as the query found them; analysis 4
\* offers the brands of p and, for a brand picked, charts its users over all
\* periods; analyses 4 and 5 query for the brand picked only
Cs2AnalysesFor(r, p, brands_db, eng_db, tb_db, av_db, ts_db, bse_db) ==
    /\ r.common = <<PyInt(p[1]), PyInt(p[2])>>
    /\ ~Cs2Has(r, "warning")
    /\ r.brands = Cs2Brands(brands_db, p[1], p[2])
    /\ Cs2Has(r, "chart 1") <=> r.brands # {}
    /\ r.eng = Cs2Engagement(eng_db, p[1], p[2])
    /\ Cs2Has(r, "subheader 2") /\ (Cs2Has(r, "chart 2") <=> r.eng # {})
    /\ r.tb \in Cs2TopBrandFrames(tb_db, p[1], p[2])
    /\ Cs2Has(r, "subheader 3") /\ Cs2Has(r, "table 3")
    /\ r.av_brands = {x.brand : x \in AggUserRows(av_db, p[1], p[2])} \ {PyNone}
    /\ r.pick \in r.av_brands \/ (r.av_brands = {} /\ r.pick = PyNone)
    /\ Cs2Has(r, "subheader 4") /\ Cs2Has(r, "selectbox 4")
    /\ Cs2Has(r, "subheader 5")
    /\ IF Truthy(r.pick)
       THEN /\ r.ts = Cs2BrandSeries(ts_db, r.pick)
            /\ Cs2Has(r, "chart 4") <=> r.ts # {}
            /\ r.bse = Cs2BrandShare(bse_db, r.pick, p[1], p[2])
            /\ Cs2Has(r, "table 5")
            /\ Cs2Has(r, "map 5") <=> r.bse # {}
       ELSE /\ r.ts = Unset /\ r.bse = Unset
            /\ ~Cs2Has(r, "chart 4") /\ ~Cs2Has(r, "table 5") /\ ~Cs2Has(r, "map 5")

\* C18: render_cs2 runs its analyses for the latest (year, quarter) -
\* greatest year, then greatest quarter - present in both aggregated_user
\* and map_user when the call looks for it, whatever year and quarter it is
\* given and whatever is loaded while it runs; when the tables then share no
\* period it emits a warning and renders none of the analyses.
C18_LatestCommonPeriodUsed ==
    [][Cs2CallStep =>
         IF CommonPeriods(Cs2SeenBy("latest_common_period")') = {}
         THEN /\ cs2'.elements = <<"warning">>
              /\ cs2'.brands = Unset /\ cs2'.eng = Unset /\ cs2'.tb = Unset
              /\ cs2'.av_brands = Unset /\ cs2'.ts = Unset /\ cs2'.bse = Unset
         ELSE Cs2AnalysesFor(cs2', LatestCommon(Cs2SeenBy("latest_common_period")'),
                             Cs2SeenBy("brands")', Cs2SeenBy("eng")', Cs2SeenBy("tb")',
                             Cs2SeenBy("av_brands")', Cs2SeenBy("ts")', Cs2SeenBy("bse")')]_vars

\* the tables share Q2 2022 and Q1 2023; render_cs2, given Q2 2022, ran its
\* analyses for Q1 2023, with a brand picked for analyses 4 and 5
C18_Witness ==
    /\ cs2 # Unset
    /\ loaded.at = "none"
    /\ CommonPeriods(Cs2Db) = {<<2022, 2>>, <<2023, 1>>}
    /\ <<cs2.year, cs2.quarter>> = <<2022, 2>>
    /\ cs2.common = <<PyInt(2023), PyInt(1)>>
    /\ cs2.brands = Cs2Brands(Cs2Db, 2023, 1)
    /\ cs2.brands # {}
    /\ Truthy(cs2.pick)
    /\ Cs2Has(cs2, "table 5")

----------------------------------------------------------------------------
(* Claims about the shared geometry, under SpecFC *)

EnrichmentKeys == {"metric_value", "height", "fill_r", "fill_g", "fill_b", "fill_a"}

\* C19: build_feature_collection leaves the shared boundary geometry
\* unchanged: after any sequence of calls with any metric rows INDIA_GEOJSON
\* is what it was and none of its features has gained metric_value, height
\* or a fill property, every output feature being a copy of its own.
C19_GeometryUnchanged ==
    [][/\ INDIA_GEOJSON' = INDIA_GEOJSON
       /\ \A i \in 1..Len(INDIA_GEOJSON') : \A k \in EnrichmentKeys :
             ~HasKey(FeatureProps(INDIA_GEOJSON'[i]).items, k)]_vars

\* a call for a table with rows has produced features with a height, and
\* the feature of the geometry it was copied from has none
C19_Witness ==
    /\ Built
    /\ df_plot # <<>>
    /\ Len(INDIA_GEOJSON) >= 2
    /\ HasKey(FeatureProps(fc.l[1]).items, "height")
    /\ ~HasKey(FeatureProps(INDIA_GEOJSON[1]).items, "height")

====
